---- MODULE Spec2Model ----
(***************************************************************************)
(* Model of the sku_sales_inventory reconciliation engine:                 *)
(*   src/src/utils.py       clean_money, load_csv, find_latest_report      *)
(*   src/src/parsers.py     _process_bundled_row and the channel parsers   *)
(*   src/src/pipeline.py    DataPipeline.run / load                        *)
(*   src/src/pipelines/     InventoryPipeline, SalesPipeline               *)
(*   src/src/schemas.py     InventoryItem, SalesRecord                     *)
(*                                                                         *)
(* Conventions.                                                            *)
(*  - A DataFrame is a sequence of records (row order as pandas yields it, *)
(*    group-by results sorted by key).  None is the value NoneDf.          *)
(*  - A float amount is held exactly, in units of 1/RevScale of a dollar,  *)
(*    so that a split over 1, 2 or 3 SKUs and round(.., 2) are exact.      *)
(*  - A raw cell is a record: a number, a string (sequence of characters)  *)
(*    or an empty cell.                                                    *)
(*  - An exception that no handler of the code catches ends the run in     *)
(*    pc = "crashed" with the exception's name in `exc`.                   *)
(***************************************************************************)
EXTENDS Integers, Sequences, FiniteSets, TLC

(***************************************************************************)
(* Bounds of the model                                                     *)
(***************************************************************************)
\* master SKUs modelled (a prefix of ModelledSkus)
NumSkus == 2
\* rows in the raw files of one run, all files together
MaxRows == 2
\* files of one run that cannot be read or lack a column their parser reads
MaxFaults == 1

(***************************************************************************)
(* Generic helpers                                                         *)
(***************************************************************************)
Range(s) == {s[i] : i \in DOMAIN s}

RECURSIVE SeqSum(_)
SeqSum(s) == IF s = <<>> THEN 0 ELSE Head(s) + SeqSum(Tail(s))

RECURSIVE FlattenSeq(_)
FlattenSeq(ss) == IF ss = <<>> THEN <<>> ELSE Head(ss) \o FlattenSeq(Tail(ss))

\* Python's order of the strings the model uses (str.__lt__), as pandas'
\* group-by and sorted() apply it.
StrOrder ==
    << "3001", "4001", "5001", "6001", "9999", "Amazon", "Bundles", "Others",
       "Shopify", "Target", "TikTok Shop", "TikTok Shopify", "Walmart" >>

Rank(str) == CHOOSE i \in DOMAIN StrOrder : StrOrder[i] = str

RECURSIVE SortedStrings(_)
SortedStrings(S) ==
    IF S = {} THEN <<>>
    ELSE LET m == CHOOSE x \in S : \A y \in S : Rank(x) <= Rank(y)
         IN  <<m>> \o SortedStrings(S \ {m})

(***************************************************************************)
(* Configuration: src/src/settings.py                                      *)
(***************************************************************************)
\* The SKUs of SKU_ORDER the model keeps, in SKU_ORDER's relative order.
ModelledSkus == << "3001", "5001", "6001" >>

SKU_ORDER == SubSeq(ModelledSkus, 1, NumSkus)

MasterSkus == Range(SKU_ORDER)

\* Inventory channels, settings.CHANNEL_ORDER.
CHANNEL_ORDER == << "FBA", "AWD", "DTC", "Reserve", "WFS" >>

\* SHOPIFY_SKU_MAP restricted to the keys the model draws.
SHOPIFY_SKU_MAP ==
    [ k \in { "5001", "5002", "5003", "4001", "4001-3001",
              "LysineMonolaurinandCleanLysine" } |->
        CASE k = "5001" -> << "5001" >>
          [] k = "5002" -> << "5001", "5001" >>
          [] k = "5003" -> << "5001", "5001", "5001" >>
          [] k = "4001" -> << "4001" >>
          [] k = "4001-3001" -> << "4001", "3001" >>
          [] k = "LysineMonolaurinandCleanLysine" -> << "5001", "4001" >> ]

\* AMAZON_SKU_MAP restricted to the keys the model draws (every list has
\* length 1 in the source as well).
AMAZON_SKU_MAP ==
    [ k \in { "4001", "4001s", "5001", "5001s" } |->
        CASE k = "4001" -> << "4001" >>
          [] k = "4001s" -> << "4001" >>
          [] k = "5001" -> << "5001" >>
          [] k = "5001s" -> << "5001" >> ]

\* AMAZON_SKUs restricted to the keys the model draws: the raw SKU names the
\* FBA and AWD reports are filtered by.
AMAZON_SKUs == { "3001s", "5001s", "6001s" }

\* DSKU_TO_SKU_MAP restricted to the keys the model draws.
DSKU_TO_SKU_MAP ==
    [ k \in { "DU100QJK94P", "DT0W1B9XFKY" } |->
        IF k = "DU100QJK94P" THEN "3001" ELSE "5001" ]

\* TIKTOK_ID_MAP restricted to the keys the model draws.
TIKTOK_ID_MAP ==
    [ k \in { "1729500444198605281", "1729500444198670817",
              "1731511743027384801" } |->
        CASE k = "1729500444198605281" -> << "5001" >>
          [] k = "1729500444198670817" -> << "5001", "5001" >>
          [] k = "1731511743027384801" -> << "5001", "4001" >> ]

(***************************************************************************)
(* Amounts and raw cells                                                   *)
(***************************************************************************)
\* One dollar, in the unit amounts are held in.
RevScale == 6 * 100

Num(n) == [t |-> "num", v |-> n, s |-> <<>>]
Str(cs) == [t |-> "str", v |-> 0, s |-> cs]
EmptyCell == [t |-> "none", v |-> 0, s |-> <<>>]

Digit == [ c \in { "0", "1", "2", "3", "4", "5", "6", "7", "8", "9" } |->
            CASE c = "0" -> 0 [] c = "1" -> 1 [] c = "2" -> 2 [] c = "3" -> 3
              [] c = "4" -> 4 [] c = "5" -> 5 [] c = "6" -> 6 [] c = "7" -> 7
              [] c = "8" -> 8 [] c = "9" -> 9 ]

RECURSIVE RemoveChars(_, _)
RemoveChars(cs, drop) ==
    IF cs = <<>> THEN <<>>
    ELSE IF Head(cs) \in drop THEN RemoveChars(Tail(cs), drop)
         ELSE <<Head(cs)>> \o RemoveChars(Tail(cs), drop)

RECURSIVE LStrip(_)
LStrip(cs) == IF cs # <<>> /\ Head(cs) = " " THEN LStrip(Tail(cs)) ELSE cs

RECURSIVE RStrip(_)
RStrip(cs) ==
    IF cs # <<>> /\ cs[Len(cs)] = " " THEN RStrip(SubSeq(cs, 1, Len(cs) - 1))
    ELSE cs

Strip(cs) == RStrip(LStrip(cs))

RECURSIVE DigitsValue(_)
DigitsValue(ds) ==
    IF ds = <<>> THEN 0
    ELSE DigitsValue(SubSeq(ds, 1, Len(ds) - 1)) * 10 + Digit[ds[Len(ds)]]

\* float(text) for a decimal literal with at most two decimals: the value in
\* amount units, or ok = FALSE where float() raises ValueError.
ParseFloat(cs) ==
    LET neg == cs # <<>> /\ Head(cs) = "-"
        body == IF cs # <<>> /\ Head(cs) \in { "-", "+" } THEN Tail(cs) ELSE cs
        dots == { i \in DOMAIN body : body[i] = "." }
        p == IF dots = {} THEN Len(body) + 1 ELSE CHOOSE i \in dots : TRUE
        ip == SubSeq(body, 1, p - 1)
        fp == SubSeq(body, p + 1, Len(body))
        wellformed ==
            /\ Cardinality(dots) <= 1
            /\ Len(ip) + Len(fp) >= 1
            /\ Len(fp) <= 2
            /\ \A i \in DOMAIN body : i # p => body[i] \in DOMAIN Digit
        frac == IF Len(fp) = 0 THEN 0
                ELSE IF Len(fp) = 1 THEN DigitsValue(fp) * 10
                ELSE DigitsValue(fp)
        mag == DigitsValue(ip) * RevScale + frac * (RevScale \div 100)
    IN  IF wellformed THEN [ok |-> TRUE, v |-> IF neg THEN 0 - mag ELSE mag]
        ELSE [ok |-> FALSE, v |-> 0]

\* utils.clean_money: a number is taken as it is, a string loses "$" and ","
\* and surrounding blanks and is parsed ("" is 0.0), anything else is 0.0.
clean_money(val) ==
    CASE val.t = "num" -> [ok |-> TRUE, v |-> val.v * RevScale]
      [] val.t = "str" ->
            LET clean == Strip(RemoveChars(val.s, { "$", "," }))
            IN  IF clean = <<>> THEN [ok |-> TRUE, v |-> 0] ELSE ParseFloat(clean)
      [] OTHER -> [ok |-> TRUE, v |-> 0]

(***************************************************************************)
(* Bundle expansion: parsers._process_bundled_row                          *)
(***************************************************************************)
\* A raw sales line: the external key, the quantity and the amount cell.
\* The result holds the exploded items, the bundle flag, and `raised`, the
\* exception clean_money lets escape ("" when none).
\* The items of a mapped row, with the units divided over the list as well.
bundled_items_halved(target_skus, original_qty, money) ==
    IF ~money.ok
    THEN [items |-> <<>>, is_bundle |-> FALSE, raised |-> "ValueError"]
    ELSE [items |-> [i \in DOMAIN target_skus |->
                       [SKU |-> target_skus[i],
                        Units |-> original_qty \div Len(target_skus),
                        Revenue |-> money.v \div Len(target_skus)]],
          is_bundle |-> Len(target_skus) > 1,
          raised |-> ""]

\* The part of _process_bundled_row after the lookup: bundle_size, is_bundle,
\* rev_per_item, and one item per target SKU with the row's own quantity.
bundled_items(target_skus, original_qty, money) ==
    IF ~money.ok
    THEN [items |-> <<>>, is_bundle |-> FALSE, raised |-> "ValueError"]
    ELSE [items |-> [i \in DOMAIN target_skus |->
                       [SKU |-> target_skus[i],
                        Units |-> original_qty,
                        Revenue |-> money.v \div Len(target_skus)]],
          is_bundle |-> Len(target_skus) > 1,
          raised |-> ""]

process_bundled_row(row, mapping_dict) ==
    IF row.key \notin DOMAIN mapping_dict \/ mapping_dict[row.key] = <<>>
    THEN [items |-> <<>>, is_bundle |-> FALSE, raised |-> ""]
    ELSE bundled_items(mapping_dict[row.key], row.qty, clean_money(row.rev))

(***************************************************************************)
(* Tables                                                                  *)
(***************************************************************************)
\* The value None where the code returns no DataFrame.
NoneDf == << [none |-> TRUE] >>

IsData(df) == df # NoneDf /\ df # <<>>

RECURSIVE UnitsOf(_)
UnitsOf(items) == IF items = <<>> THEN 0 ELSE Head(items).Units + UnitsOf(Tail(items))

RECURSIVE RevenueOf(_)
RevenueOf(items) ==
    IF items = <<>> THEN 0 ELSE Head(items).Revenue + RevenueOf(Tail(items))

\* df.groupby("SKU")[["Units", "Revenue"]].sum().reset_index()
GroupBySku(items) ==
    LET keys == SortedStrings({items[i].SKU : i \in DOMAIN items})
    IN  [k \in DOMAIN keys |->
            LET mine == SelectSeq(items, LAMBDA r : r.SKU = keys[k])
            IN  [SKU |-> keys[k], Units |-> UnitsOf(mine), Revenue |-> RevenueOf(mine)]]

\* df.groupby(["SKU", "Channel"])[["Units", "Revenue"]].sum().reset_index()
GroupBySkuChannel(items) ==
    LET skus == SortedStrings({items[i].SKU : i \in DOMAIN items})
        chansOf(sku) ==
            SortedStrings({items[i].Channel : i \in {j \in DOMAIN items : items[j].SKU = sku}})
        groupsOf(sku) ==
            [c \in DOMAIN chansOf(sku) |->
                LET mine == SelectSeq(items,
                                LAMBDA r : r.SKU = sku /\ r.Channel = chansOf(sku)[c])
                IN  [SKU |-> sku, Channel |-> chansOf(sku)[c],
                     Units |-> UnitsOf(mine), Revenue |-> RevenueOf(mine)]]
    IN  FlattenSeq([k \in DOMAIN skus |-> groupsOf(skus[k])])

(***************************************************************************)
(* State                                                                   *)
(***************************************************************************)
VARIABLES
    report_type,        \* "inventory" or "sales": the pipeline that runs
    test_mode,          \* DataPipeline.test_mode
    system_date,        \* date.today() of the run
    directory,          \* INPUT_DIR: the set of report files, [prefix, date]
    content,            \* what each prefix's resolved file holds
    pc,                 \* position of DataPipeline.run
    idx,                \* position of extract in PARSER_REGISTRY
    dataframes,         \* rows of the DataFrames extract has appended so far
    bundle_rows,        \* SalesPipeline.bundle_rows
    processed_channels, \* SalesPipeline.processed_channels
    channels,           \* DataPipeline.channels
    status_summary,     \* DataPipeline.status_summary
    validated_data,     \* what transform returned (NoneDf: None)
    exc,                \* the uncaught exception that ended the run, or ""
    status_lines,       \* the status lines load has logged
    calls,              \* calls made to data_handler, in order
    fn_call,            \* the function applied on its own, with its arguments
    fn_result           \* what that function returned

vars == << report_type, test_mode, system_date, directory, content, pc, idx,
           dataframes, bundle_rows, processed_channels, channels,
           status_summary, validated_data, exc, status_lines, calls,
           fn_call, fn_result >>

\* date.today(), as a day number.
Today == 2

\* The dates a report file may carry: today's or the day before's.
Dates == { Today - 1, Today }

\* A date slot that holds None.
NoDate == 0

\* A file path that is None.
NonePath == "None"

(***************************************************************************)
(* File Resolver and Tabular Loader: src/src/utils.py                      *)
(***************************************************************************)
\* An entry of the report directory tree: the prefix its name starts with and
\* the date segment that follows; whether it is a regular file or a
\* directory; whether its whole name is prefix + YYYY-MM-DD + ".csv"; whether
\* the date segment is a calendar date; whether it lies in a subdirectory.
DirEntry(prefix, date, kind, name_ok, date_ok, nested) ==
    [prefix |-> prefix, date |-> date, kind |-> kind, name_ok |-> name_ok,
     date_ok |-> date_ok, nested |-> nested]

\* A report file directly in the directory, named prefix + date + ".csv".
ReportFile(prefix, date) == DirEntry(prefix, date, "file", TRUE, TRUE, FALSE)

\* today_file.exists(): an entry directly in the directory, of any kind,
\* whose name is prefix + today + ".csv".
today_file_exists(dir, prefix, today) ==
    \E f \in dir : /\ ~f.nested /\ f.prefix = prefix /\ f.name_ok
                   /\ f.date_ok /\ f.date = today

\* The scan that keeps every entry that starts with the prefix, nested or
\* not, file or not, whatever follows the prefix.
scan_unchecked(dir, prefix) == {f \in dir : f.prefix = prefix}

\* The scan of directory.iterdir(): the entries directly in the directory
\* that are files, whose whole name matches the pattern and whose date
\* segment date.fromisoformat accepts.
scan(dir, prefix) ==
    {f \in dir : /\ ~f.nested /\ f.kind = "file" /\ f.prefix = prefix
                 /\ f.name_ok /\ f.date_ok}

\* The result for the found file of the greatest date, None for no file.
latest_of(found_files, prefix, scanned) ==
    IF found_files = {}
    THEN [found |-> FALSE, path |-> NonePath, date |-> NoDate, scanned |-> scanned]
    ELSE LET best == CHOOSE f \in found_files :
                        \A g \in found_files : g.date <= f.date
         IN  [found |-> TRUE, path |-> prefix, date |-> best.date,
              scanned |-> scanned]

\* find_latest_report with the scan limited to files dated today or earlier.
find_latest_report_not_after_today(dir, prefix, today) ==
    IF today_file_exists(dir, prefix, today)
    THEN [found |-> TRUE, path |-> prefix, date |-> today, scanned |-> FALSE]
    ELSE latest_of({f \in scan(dir, prefix) : f.date <= today}, prefix, TRUE)

\* find_latest_report without the check for today's file: the scan alone.
find_latest_report_scan_only(dir, prefix, today) ==
    latest_of(scan(dir, prefix), prefix, TRUE)

\* find_latest_report(directory, prefix): today's file if it exists, else
\* the matching file with the greatest date, else None (found = FALSE);
\* scanned tells whether directory.iterdir() was walked.
find_latest_report(dir, prefix, today) ==
    IF today_file_exists(dir, prefix, today)
    THEN [found |-> TRUE, path |-> prefix, date |-> today, scanned |-> FALSE]
    ELSE latest_of(scan(dir, prefix), prefix, TRUE)

\* The keyword parameters load_csv declares.
load_csv_params == { "file_path", "skiprows" }

\* load_csv(file_path, **kwargs) on the file `file`:
\*   a keyword the function does not declare          -> TypeError at the call
\*   file_path None: read_csv raises, and the handler
\*   evaluates file_path.name                         -> AttributeError
\*   a file pandas cannot read                        -> None
\*   otherwise                                        -> the table
load_csv(file_path, file, kwargs) ==
    IF ~(kwargs \subseteq load_csv_params)
    THEN [raised |-> "TypeError", df |-> NoneDf]
    ELSE IF file_path = NonePath
    THEN [raised |-> "AttributeError", df |-> NoneDf]
    ELSE IF ~file.readable
    THEN [raised |-> "", df |-> NoneDf]
    ELSE [raised |-> "", df |-> file.rows]

(***************************************************************************)
(* Sales parsers: src/src/parsers.py                                       *)
(***************************************************************************)
NoStats == [Units |-> 0, Revenue |-> 0]

ParserNone(raw_count) ==
    [raised |-> "", df |-> NoneDf, stats |-> NoStats, raw_count |-> raw_count]

ParserRaised(e) ==
    [raised |-> e, df |-> NoneDf, stats |-> NoStats, raw_count |-> 0]

\* The first exception of a sequence of per-row results, "" when none.
FirstRaised(results) ==
    LET bad == {i \in DOMAIN results : results[i].raised # ""}
    IN  IF bad = {} THEN ""
        ELSE results[CHOOSE i \in bad : \A j \in bad : i <= j].raised

\* parse_walmart_sales_report: rename, clean_money on the GMV column, group by
\* SKU.  A table without the GMV column raises KeyError at df["Revenue"].
parse_walmart_sales_report(file_path, file) ==
    LET cleaned(loaded, money) ==
            IF loaded.raised # "" THEN ParserRaised(loaded.raised)
            ELSE IF loaded.df = NoneDf THEN ParserNone(0)
            ELSE IF ~file.cols_ok THEN ParserRaised("KeyError")
            ELSE IF \E i \in DOMAIN money : ~money[i].ok THEN ParserRaised("ValueError")
            ELSE [raised |-> "",
                  df |-> GroupBySku([i \in DOMAIN money |->
                            [SKU |-> loaded.df[i].key, Units |-> loaded.df[i].qty,
                             Revenue |-> money[i].v]]),
                  stats |-> NoStats, raw_count |-> Len(loaded.df)]
        read(loaded) ==
            cleaned(loaded, [i \in DOMAIN loaded.df |-> clean_money(loaded.df[i].rev)])
    IN  read(load_csv(file_path, file, { "file_path" }))

\* The row loop shared by the Amazon and TikTok parsers: expand every row,
\* add the bundle rows' own quantity and amount to the bundle statistics.
\* A mapped row of a table without the amount column raises KeyError.
expand_rows(df, mapping_dict, cols_ok) ==
    LET totals(res) ==
            [raised |-> FirstRaised(res),
             expanded_rows |-> FlattenSeq([i \in DOMAIN df |-> res[i].items]),
             bundle_units |->
                SeqSum([i \in DOMAIN df |-> IF res[i].is_bundle THEN df[i].qty ELSE 0]),
             bundle_rev |->
                SeqSum([i \in DOMAIN df |->
                    IF res[i].is_bundle THEN clean_money(df[i].rev).v ELSE 0])]
    IN  totals([i \in DOMAIN df |->
                  IF ~cols_ok /\ df[i].key \in DOMAIN mapping_dict
                  THEN [items |-> <<>>, is_bundle |-> FALSE, raised |-> "KeyError"]
                  ELSE process_bundled_row(df[i], mapping_dict)])

mapped_sales_report(loaded, mapping_dict, cols_ok) ==
    LET grouped(ex) ==
            IF loaded.raised # "" THEN ParserRaised(loaded.raised)
            ELSE IF loaded.df = NoneDf THEN ParserNone(0)
            ELSE IF ex.raised # "" THEN ParserRaised(ex.raised)
            ELSE IF ex.expanded_rows = <<>> THEN ParserNone(Len(loaded.df))
            ELSE [raised |-> "", df |-> GroupBySku(ex.expanded_rows),
                  stats |-> [Units |-> ex.bundle_units, Revenue |-> ex.bundle_rev],
                  raw_count |-> Len(loaded.df)]
    IN  grouped(expand_rows(loaded.df, mapping_dict, cols_ok))

\* parse_amazon_sales_report
parse_amazon_sales_report(file_path, file) ==
    mapped_sales_report(load_csv(file_path, file, { "file_path" }),
                        AMAZON_SKU_MAP, file.cols_ok)

\* parse_tiktok_sales_report: the header scan opens the file itself (a file
\* it cannot read is caught and yields None), then the table is loaded with
\* load_csv(path, skiprows=..., sep=...).
parse_tiktok_sales_report(file_path, file) ==
    IF ~file.readable THEN ParserNone(0)
    ELSE mapped_sales_report(
            load_csv(file_path, file, { "file_path", "skiprows", "sep" }),
            TIKTOK_ID_MAP, file.cols_ok)

\* The buckets of the storefront parser, in the order of its bundle_stats.
ShopifyBuckets == << "Shopify", "TikTok Shopify", "Target", "Others" >>

\* The bucket of a raw "Sales channel" label, without the TikTok case.
bucket_of_untagged(c_name) ==
    CASE c_name = "Marketplace Connect" -> "Target"
      [] c_name \in { "Online Store", "Shop", "Loop Subscriptions" } -> "Shopify"
      [] OTHER -> "Others"

\* The bucket of a raw "Sales channel" label.
bucket_of(c_name) ==
    CASE c_name = "TikTok" -> "TikTok Shopify"
      [] c_name = "Marketplace Connect" -> "Target"
      [] c_name \in { "Online Store", "Shop", "Loop Subscriptions" } -> "Shopify"
      [] OTHER -> "Others"

\* The storefront filter without the positivity test: only draft orders go.
shopify_keep_nondraft(r) == r.channel # "Draft Orders"

\* The rows the storefront parser keeps: not a draft order, and a positive
\* amount or a positive quantity.
shopify_keep(r) ==
    /\ r.channel # "Draft Orders"
    /\ (r.rev.t = "num" /\ r.rev.v > 0) \/ r.qty > 0

\* parse_shopify_sales_report.  The filter compares the raw amount column
\* with 0, which raises TypeError on a column of strings.
parse_shopify_sales_report(file_path, file) ==
    LET tagged(bucket, r) ==
            [items |-> [k \in DOMAIN r.items |->
                          [SKU |-> r.items[k].SKU, Channel |-> bucket,
                           Units |-> r.items[k].Units, Revenue |-> r.items[k].Revenue]],
             is_bundle |-> r.is_bundle, raised |-> r.raised, bucket |-> bucket]
        grouped(loaded, df, res, all_expanded) ==
            LET bundle_stats ==
                    [b \in Range(ShopifyBuckets) |->
                        [Units |-> SeqSum([i \in DOMAIN df |->
                                      IF res[i].is_bundle /\ res[i].bucket = b
                                      THEN df[i].qty ELSE 0]),
                         Revenue |-> SeqSum([i \in DOMAIN df |->
                                      IF res[i].is_bundle /\ res[i].bucket = b
                                      THEN clean_money(df[i].rev).v ELSE 0])]]
            IN  IF loaded.raised # "" THEN ParserRaised(loaded.raised)
                ELSE IF loaded.df = NoneDf THEN ParserNone(0)
                ELSE IF ~file.cols_ok THEN ParserRaised("KeyError")
                ELSE IF \E i \in DOMAIN loaded.df : loaded.df[i].rev.t = "str"
                THEN ParserRaised("TypeError")
                ELSE IF FirstRaised(res) # "" THEN ParserRaised(FirstRaised(res))
                ELSE [raised |-> "",
                      df |-> IF all_expanded = <<>> THEN NoneDf
                             ELSE GroupBySkuChannel(all_expanded),
                      stats |-> bundle_stats, raw_count |-> Len(loaded.df)]
        expanded(loaded, df, res) ==
            grouped(loaded, df, res, FlattenSeq([i \in DOMAIN df |-> res[i].items]))
        filtered(loaded, df) ==
            expanded(loaded, df,
                     [i \in DOMAIN df |->
                        tagged(bucket_of(df[i].channel),
                               process_bundled_row(df[i], SHOPIFY_SKU_MAP))])
        read(loaded) == filtered(loaded, SelectSeq(loaded.df, shopify_keep))
    IN  read(load_csv(file_path, file, { "file_path" }))

(***************************************************************************)
(* Inventory parsers: src/src/parsers.py                                   *)
(***************************************************************************)
\* A normalized inventory row.
InvRow(sku, channel, units_sold, inventory, inbound) ==
    [sku |-> sku, channel |-> channel, units_sold |-> units_sold,
     inventory |-> inventory, inbound |-> inbound]

InvNone == [raised |-> "", df |-> NoneDf]

InvRaised(e) == [raised |-> e, df |-> NoneDf]

RECURSIVE SumField(_, _)
SumField(rows, f) == IF rows = <<>> THEN 0 ELSE Head(rows)[f] + SumField(Tail(rows), f)

\* str.replace(r"s$", "") on a raw Amazon SKU name.
strip_trailing_s(k) ==
    CASE k = "3001s" -> "3001"
      [] k = "5001s" -> "5001"
      [] k = "6001s" -> "6001"
      [] OTHER -> k

\* _normalize_and_aggregate_amazon_report without the allow-list filter.
normalize_and_aggregate_amazon_report_unfiltered(rows) ==
    LET temp_df == [i \in DOMAIN rows |-> [rows[i] EXCEPT !.sku = strip_trailing_s(@)]]
        keys == SortedStrings({temp_df[i].sku : i \in DOMAIN temp_df})
    IN  [k \in DOMAIN keys |->
            LET mine == SelectSeq(temp_df, LAMBDA r : r.sku = keys[k])
            IN  [sku |-> keys[k],
                 units_sold |-> SumField(mine, "units_sold"),
                 inventory |-> SumField(mine, "inventory"),
                 inbound |-> SumField(mine, "inbound")]]

\* _normalize_and_aggregate_amazon_report on rows already projected to the
\* standard metric names: keep the rows whose raw SKU is in AMAZON_SKUs, drop
\* the trailing "s", group by SKU and sum.
normalize_and_aggregate_amazon_report(rows) ==
    LET df_filtered == SelectSeq(rows, LAMBDA r : r.sku \in AMAZON_SKUs)
        temp_df == [i \in DOMAIN df_filtered |->
                      [df_filtered[i] EXCEPT !.sku = strip_trailing_s(@)]]
        keys == SortedStrings({temp_df[i].sku : i \in DOMAIN temp_df})
    IN  [k \in DOMAIN keys |->
            LET mine == SelectSeq(temp_df, LAMBDA r : r.sku = keys[k])
            IN  [sku |-> keys[k],
                 units_sold |-> SumField(mine, "units_sold"),
                 inventory |-> SumField(mine, "inventory"),
                 inbound |-> SumField(mine, "inbound")]]

\* pd.merge(full_sku_template, parsed, on="sku", how="left").fillna(0) with
\* the channel column set: every SKU of SKU_ORDER once per matching row of
\* parsed, or once with zeros.
sku_template_merge(parsed, channel) ==
    FlattenSeq([s \in DOMAIN SKU_ORDER |->
        LET hits == SelectSeq(parsed, LAMBDA r : r.sku = SKU_ORDER[s])
        IN  IF hits = <<>> THEN << InvRow(SKU_ORDER[s], channel, 0, 0, 0) >>
            ELSE [h \in DOMAIN hits |->
                    InvRow(SKU_ORDER[s], channel, hits[h].units_sold,
                           hits[h].inventory, hits[h].inbound)]])

\* parse_fba_report: inventory is Available + FC transfer.
parse_fba_report(file_paths, files) ==
    LET loaded == load_csv(file_paths["primary"], files["primary"], { "file_path" })
        df == loaded.df
        mapped == [i \in DOMAIN df |->
                     [sku |-> df[i].sku, units_sold |-> df[i].units_sold,
                      inventory |-> df[i].available + df[i].fc_transfer,
                      inbound |-> df[i].inbound]]
    IN  IF loaded.raised # "" THEN InvRaised(loaded.raised)
        ELSE IF df = NoneDf THEN InvNone
        ELSE IF ~files["primary"].cols_ok THEN InvRaised("KeyError")
        ELSE [raised |-> "",
              df |-> sku_template_merge(normalize_and_aggregate_amazon_report(mapped), "FBA")]

\* parse_awd_report: the report has no sales column, units_sold is set to 0.
parse_awd_report(file_paths, files) ==
    LET loaded == load_csv(file_paths["primary"], files["primary"],
                           { "file_path", "skiprows" })
        df == loaded.df
        mapped == [i \in DOMAIN df |->
                     [sku |-> df[i].sku, units_sold |-> 0,
                      inventory |-> df[i].available, inbound |-> df[i].inbound]]
    IN  IF loaded.raised # "" THEN InvRaised(loaded.raised)
        ELSE IF df = NoneDf THEN InvNone
        ELSE IF ~files["primary"].cols_ok THEN InvRaised("KeyError")
        ELSE [raised |-> "",
              df |-> sku_template_merge(normalize_and_aggregate_amazon_report(mapped), "AWD")]

\* Series.clip left out: the difference as it is.
clip_none(n) == n

\* Series.clip(lower=0)
clip_lower_0(n) == IF n < 0 THEN 0 ELSE n

\* The orders table with its cancelled orders kept.
orders_with_cancelled(orders_df) == orders_df

\* orders_df[orders_df["Order Status"] != "CANCELLED"]
orders_not_cancelled(orders_df) ==
    SelectSeq(orders_df, LAMBDA r : r.status # "CANCELLED")

\* parse_flexport_reports.  The three files are loaded first, the optional
\* inbound file included; then stock levels are summed by SKU and split into
\* the DTC and Reserve pools, order items are exploded, mapped and summed, and
\* inbound is summed over its two columns.
parse_flexport_reports(file_paths, files) ==
    LET levels == load_csv(file_paths["levels"], files["levels"], { "file_path" })
        orders == load_csv(file_paths["orders"], files["orders"], { "file_path" })
        inbound == load_csv(file_paths["inbound"], files["inbound"], { "file_path" })
        levels_filtered == SelectSeq(levels.df, LAMBDA r : r.msku \in MasterSkus)
        orders_clean == orders_not_cancelled(orders.df)
        orders_exploded == FlattenSeq([i \in DOMAIN orders_clean |-> orders_clean[i].items])
        orders_valid == SelectSeq(orders_exploded, LAMBDA it : it.dsku \in DOMAIN DSKU_TO_SKU_MAP)
        inbound_filtered ==
            IF inbound.df = NoneDf THEN <<>>
            ELSE SelectSeq(inbound.df, LAMBDA r : r.msku \in MasterSkus)
        dtc_inventory(sku) ==
            SumField(SelectSeq(levels_filtered, LAMBDA r : r.msku = sku), "dtc")
        reserve_inventory(sku) ==
            LET mine == SelectSeq(levels_filtered, LAMBDA r : r.msku = sku)
            IN  clip_lower_0(SumField(mine, "rs") - SumField(mine, "wip"))
        units_sold(sku) ==
            SumField(SelectSeq(orders_valid, LAMBDA it : DSKU_TO_SKU_MAP[it.dsku] = sku), "qty")
        inbound_of(sku) ==
            LET mine == SelectSeq(inbound_filtered, LAMBDA r : r.msku = sku)
            IN  SumField(mine, "under_60_days") + SumField(mine, "to_deliverr")
        dtc_final == [s \in DOMAIN SKU_ORDER |->
                        InvRow(SKU_ORDER[s], "DTC", units_sold(SKU_ORDER[s]),
                               dtc_inventory(SKU_ORDER[s]), inbound_of(SKU_ORDER[s]))]
        reserve_final == [s \in DOMAIN SKU_ORDER |->
                            InvRow(SKU_ORDER[s], "Reserve", 0,
                                   reserve_inventory(SKU_ORDER[s]), 0)]
    IN  IF levels.raised # "" THEN InvRaised(levels.raised)
        ELSE IF orders.raised # "" THEN InvRaised(orders.raised)
        ELSE IF inbound.raised # "" THEN InvRaised(inbound.raised)
        ELSE IF levels.df = NoneDf \/ orders.df = NoneDf THEN InvNone
        ELSE IF ~files["levels"].cols_ok \/ ~files["orders"].cols_ok THEN InvRaised("KeyError")
        ELSE IF inbound.df # NoneDf /\ ~files["inbound"].cols_ok THEN InvRaised("KeyError")
        ELSE [raised |-> "", df |-> dtc_final \o reserve_final]

\* parse_wfs_report: sales summed by SKU, outer-merged with the inventory
\* rows as they are, then left-merged into the SKU template.
parse_wfs_report(file_paths, files) ==
    LET sales == load_csv(file_paths["sales"], files["sales"], { "file_path" })
        inventory == load_csv(file_paths["inventory"], files["inventory"], { "file_path" })
        sold(sku) == SumField(SelectSeq(sales.df, LAMBDA r : r.key = sku), "qty")
        sales_skus == {sales.df[i].key : i \in DOMAIN sales.df}
        inv_skus == {inventory.df[i].sku : i \in DOMAIN inventory.df}
        with_inventory ==
            [i \in DOMAIN inventory.df |->
                [sku |-> inventory.df[i].sku,
                 units_sold |-> IF inventory.df[i].sku \in sales_skus
                                THEN sold(inventory.df[i].sku) ELSE 0,
                 inventory |-> inventory.df[i].available,
                 inbound |-> inventory.df[i].inbound]]
        only_sales == SortedStrings(sales_skus \ inv_skus)
        without_inventory ==
            [k \in DOMAIN only_sales |->
                [sku |-> only_sales[k], units_sold |-> sold(only_sales[k]),
                 inventory |-> 0, inbound |-> 0]]
    IN  IF sales.raised # "" THEN InvRaised(sales.raised)
        ELSE IF inventory.raised # "" THEN InvRaised(inventory.raised)
        ELSE IF sales.df = NoneDf \/ inventory.df = NoneDf THEN InvNone
        ELSE IF ~files["sales"].cols_ok \/ ~files["inventory"].cols_ok
        THEN InvRaised("KeyError")
        ELSE [raised |-> "", df |-> sku_template_merge(with_inventory \o without_inventory, "WFS")]

(***************************************************************************)
(* Reconciliation: shared steps of the two transforms                      *)
(***************************************************************************)
\* df.groupby(channel)["Date"].first(): the date of the channel's first row.
first_date(df, ch) ==
    LET mine == {i \in DOMAIN df : df[i].Channel = ch}
    IN  df[CHOOSE i \in mine : \A j \in mine : i <= j].Date

channels_in(df) == {df[i].Channel : i \in DOMAIN df}

\* round(x, 2) on an exact amount: to the nearest cent, a tie to the even cent.
Cent == RevScale \div 100

round2(v) ==
    LET q == v \div Cent
        r == v % Cent
    IN  IF 2 * r < Cent THEN q * Cent
        ELSE IF 2 * r > Cent THEN (q + 1) * Cent
        ELSE IF q % 2 = 0 THEN q * Cent ELSE (q + 1) * Cent

\* str.replace(" ", "_") on a channel name.
underscored(ch) ==
    CASE ch = "TikTok Shop" -> "TikTok_Shop"
      [] ch = "TikTok Shopify" -> "TikTok_Shopify"
      [] OTHER -> ch

(***************************************************************************)
(* SalesPipeline: src/src/pipelines/sales.py                               *)
(***************************************************************************)
SalesRegistry ==
    << [channel |-> "Walmart", file |-> "Walmart_sales_"],
       [channel |-> "Amazon", file |-> "Amazon_sales_"],
       [channel |-> "TikTok Shop", file |-> "TikTok_sales_"],
       [channel |-> "Mixed", file |-> "Shopify_sales_"] >>

\* settings.SALES_CHANNEL_ORDER, which transform reads: the configured sales
\* channels.  settings.py as given does not define it; the channels are those
\* the registry and the storefront buckets can produce.
SALES_CHANNEL_ORDER ==
    << "Amazon", "TikTok Shop", "TikTok Shopify", "Shopify", "Walmart",
       "Target", "Others" >>

sales_parser(channel, file_path, file) ==
    CASE channel = "Walmart" -> parse_walmart_sales_report(file_path, file)
      [] channel = "Amazon" -> parse_amazon_sales_report(file_path, file)
      [] channel = "TikTok Shop" -> parse_tiktok_sales_report(file_path, file)
      [] channel = "Mixed" -> parse_shopify_sales_report(file_path, file)

\* The rows one source adds to all_data_frames: the parser's rows with the
\* file date, and the registry's channel unless the parser tagged its own.
sales_source_rows(channel, df, file_date) ==
    [i \in DOMAIN df |->
        [SKU |-> df[i].SKU,
         Channel |-> IF channel = "Mixed" THEN df[i].Channel ELSE channel,
         Date |-> file_date, Units |-> df[i].Units, Revenue |-> df[i].Revenue]]

\* The "Bundles" rows one source adds to bundle_rows.
sales_source_bundles(channel, res, file_date) ==
    IF channel # "Mixed"
    THEN << [SKU |-> "Bundles", Channel |-> channel, Date |-> file_date,
             Units |-> res.stats.Units, Revenue |-> res.stats.Revenue] >>
    ELSE LET unique_chans == {res.df[i].Channel : i \in DOMAIN res.df}
             buckets == SelectSeq(ShopifyBuckets, LAMBDA b :
                           b \in unique_chans \/ res.stats[b].Units > 0)
         IN  [k \in DOMAIN buckets |->
                [SKU |-> "Bundles", Channel |-> buckets[k], Date |-> file_date,
                 Units |-> res.stats[buckets[k]].Units,
                 Revenue |-> res.stats[buckets[k]].Revenue]]

\* The merge as an inner join: a template row without a match is lost.
sales_inner_merge(template, df) ==
    FlattenSeq([k \in DOMAIN template |->
        SelectSeq(df, LAMBDA r :
            r.SKU = template[k].SKU /\ r.Channel = template[k].Channel
            /\ r.Date = template[k].Date)])

\* pd.merge(template, df, on=["SKU", "Channel", "Date"], how="left").fillna(0):
\* every template row once per matching row of df, or once with zeros.
sales_left_merge(template, df) ==
    FlattenSeq([k \in DOMAIN template |->
        LET t == template[k]
            hits == SelectSeq(df, LAMBDA r :
                       r.SKU = t.SKU /\ r.Channel = t.Channel /\ r.Date = t.Date)
        IN  IF hits = <<>>
            THEN << [SKU |-> t.SKU, Channel |-> t.Channel, Date |-> t.Date,
                     Units |-> 0, Revenue |-> 0] >>
            ELSE hits])

\* The channels the sales template covers.
sales_template_channels_processed(df) ==
    SelectSeq(SALES_CHANNEL_ORDER, LAMBDA ch : ch \in channels_in(df))

sales_template_channels(df) == SALES_CHANNEL_ORDER

\* SalesRecord(**row): every field required, units an int, revenue a float,
\* Date a date.  The schema states no lower bound on units or revenue.
SalesRecord_valid(row) ==
    /\ row.Date \in Dates
    /\ row.Units \in Int
    /\ row.Revenue \in Int

\* The template date taken from the system date for every channel.
sales_channel_date_today(df, ch, today) == today

\* channel_dates.get(ch, self.system_date): the Date of the channel's first
\* extracted row, the system date for a channel without rows.
sales_channel_date(df, ch, today) ==
    IF ch \in channels_in(df) THEN first_date(df, ch) ELSE today

\* The zero-fill of SalesPipeline.transform: the template of every channel of
\* channels_list with every master SKU, at the channel's date, left-merged
\* with the extracted table.
sales_zero_fill(df, today) ==
    LET channels_list == sales_template_channels(df)
        template_rows ==
            FlattenSeq([c \in DOMAIN channels_list |->
                [s \in DOMAIN SKU_ORDER |->
                    [SKU |-> SKU_ORDER[s], Channel |-> channels_list[c],
                     Date |-> sales_channel_date(df, channels_list[c], today)]]])
    IN  sales_left_merge(template_rows, df)

\* The id built from the row's report date in place of the system date.
sales_record_id_report_date(system_date_str, row) ==
    << row.Date, underscored(row.Channel), row.SKU >>

\* final_df["id"]: system_date_str + "_" + Channel with " " replaced by "_"
\* + "_" + SKU, held as the triple of its parts.
sales_record_id(system_date_str, row) ==
    << system_date_str, underscored(row.Channel), row.SKU >>

\* SalesPipeline.transform(df): the validated records, or NoneDf when a
\* record fails validation.
sales_transform(df, bundles, today) ==
    LET channels_list == sales_template_channels(df)
        date_of(ch) == sales_channel_date(df, ch, today)
        merged_df == sales_zero_fill(df, today)
        bundle_template_rows ==
            [c \in DOMAIN channels_list |->
                [SKU |-> "Bundles", Channel |-> channels_list[c],
                 Date |-> date_of(channels_list[c])]]
        final_bundles_df == sales_left_merge(bundle_template_rows, bundles)
        final_df == final_bundles_df \o merged_df
        records ==
            [i \in DOMAIN final_df |->
                [id |-> sales_record_id(today, final_df[i]),
                 sku_channel_id |-> << underscored(final_df[i].Channel), final_df[i].SKU >>,
                 Date |-> final_df[i].Date,
                 SKU |-> final_df[i].SKU,
                 Channel |-> final_df[i].Channel,
                 Units |-> final_df[i].Units,
                 Revenue |-> round2(final_df[i].Revenue)]]
    IN  IF \A i \in DOMAIN records : SalesRecord_valid(records[i])
        THEN records ELSE NoneDf

(***************************************************************************)
(* InventoryPipeline: src/src/pipelines/inventory.py                       *)
(***************************************************************************)
\* PARSER_REGISTRY: each source with its required files, in dict order.
InventoryRegistry ==
    << [channel_name |-> "FBA",
        required_files |-> << [key |-> "primary", prefix |-> "FBA_report_"] >>],
       [channel_name |-> "Flexport",
        required_files |-> << [key |-> "levels", prefix |-> "Flexport_levels_"],
                              [key |-> "orders", prefix |-> "Flexport_orders_"],
                              [key |-> "inbound", prefix |-> "Flexport_inbound_"] >>],
       [channel_name |-> "AWD",
        required_files |-> << [key |-> "primary", prefix |-> "AWD_report_"] >>],
       [channel_name |-> "WFS",
        required_files |-> << [key |-> "sales", prefix |-> "Walmart_sales_"],
                              [key |-> "inventory", prefix |-> "Walmart_inventory_"] >>] >>

inventory_parser(source_name, file_paths, files) ==
    CASE source_name = "FBA" -> parse_fba_report(file_paths, files)
      [] source_name = "Flexport" -> parse_flexport_reports(file_paths, files)
      [] source_name = "AWD" -> parse_awd_report(file_paths, files)
      [] source_name = "WFS" -> parse_wfs_report(file_paths, files)

\* The loop over a source's required files: find_latest_report for each, in
\* order, until a required one is missing.  `looked` is the number of files
\* the loop looked for.
resolve_required_files(source, dir, today) ==
    LET req == source.required_files
        info(k) == find_latest_report(dir, req[k].prefix, today)
        optional(k) == req[k].key = "inbound" /\ source.channel_name = "Flexport"
        missing == {k \in DOMAIN req : ~info(k).found /\ ~optional(k)}
        all_files_found == missing = {}
        looked == IF all_files_found THEN Len(req)
                  ELSE CHOOSE k \in missing : \A j \in missing : k <= j
    IN  [all_files_found |-> all_files_found,
         looked |-> looked,
         file_paths |-> [key \in {req[k].key : k \in 1..looked} |->
                            LET k == CHOOSE j \in 1..looked : req[j].key = key
                            IN  info(k).path],
         report_dates |-> [key \in {req[k].key : k \in 1..looked} |->
                            LET k == CHOOSE j \in 1..looked : req[j].key = key
                            IN  info(k).date]]

\* The date of a secondary file, where there is one, taken first.
primary_date_secondary_first(report_dates) ==
    LET get(key) == IF key \in DOMAIN report_dates THEN report_dates[key] ELSE NoDate
    IN  IF get("orders") # NoDate THEN get("orders")
        ELSE IF get("sales") # NoDate THEN get("sales")
        ELSE get("primary")

\* report_dates.get("levels") or .get("inventory") or .get("primary")
primary_date(report_dates) ==
    LET get(key) == IF key \in DOMAIN report_dates THEN report_dates[key] ELSE NoDate
    IN  IF get("levels") # NoDate THEN get("levels")
        ELSE IF get("inventory") # NoDate THEN get("inventory")
        ELSE get("primary")

\* The channels a skipped source is reported under.
skipped_channels(source_name) ==
    IF source_name = "Flexport" THEN { "DTC", "Reserve" } ELSE { source_name }

\* The template over every configured inventory channel, whatever the table.
unique_channels_configured(df) == CHANNEL_ORDER

\* df["channel"].unique(): the channels in order of first appearance.
RECURSIVE unique_channels(_)
unique_channels(df) ==
    IF df = <<>> THEN <<>>
    ELSE LET rest == unique_channels(SubSeq(df, 1, Len(df) - 1))
             ch == df[Len(df)].channel
         IN  IF ch \in Range(rest) THEN rest ELSE Append(rest, ch)

\* The columns of the merged table once the two id columns are added.
InventoryMergedColumns ==
    { "channel", "sku", "Date", "units_sold", "inventory", "inbound",
      "id", "sku_channel_id" }

\* The columns argument of DataFrame.rename in transform.
InventoryRename ==
    [ c \in { "channel", "sku", "units_sold", "inventory", "inbound" } |->
        CASE c = "channel" -> "Channel"
          [] c = "sku" -> "SKU"
          [] c = "units_sold" -> "Units"
          [] c = "inventory" -> "Inventory"
          [] c = "inbound" -> "Inbound" ]

\* field.alias or name, for the fields of InventoryItem in order.
InventoryItem_columns ==
    << "id", "sku_channel_id", "Date", "SKU", "Channel", "Units Sold",
       "Inventory", "Inbound" >>

\* InventoryItem(**row): dates and strings as typed, the three metrics
\* integers that are >= 0.
InventoryItem_valid(row) ==
    /\ row["Date"] \in Dates
    /\ row["Units Sold"] \in Nat
    /\ row["Inventory"] \in Nat
    /\ row["Inbound"] \in Nat

\* DataFrame.rename(columns=mapping) on one row.
rename_columns(row, mapping) ==
    LET new_name(c) == IF c \in DOMAIN mapping THEN mapping[c] ELSE c
    IN  [n \in {new_name(c) : c \in DOMAIN row} |->
            row[CHOOSE c \in DOMAIN row : new_name(c) = n]]

\* The zero-fill of InventoryPipeline.transform with every template row
\* dated date.today() instead of the channel's first date.
inventory_zero_fill_dated_today(combined_df) ==
    LET processed == unique_channels(combined_df)
        template_rows ==
            FlattenSeq([c \in DOMAIN processed |->
                [s \in DOMAIN SKU_ORDER |->
                    [channel |-> processed[c], sku |-> SKU_ORDER[s], Date |-> Today]]])
    IN  FlattenSeq([k \in DOMAIN template_rows |->
            LET tr == template_rows[k]
                hits == SelectSeq(combined_df, LAMBDA r :
                           r.channel = tr.channel /\ r.sku = tr.sku /\ r.Date = tr.Date)
            IN  IF hits = <<>>
                THEN << [channel |-> tr.channel, sku |-> tr.sku, Date |-> tr.Date,
                         units_sold |-> 0, inventory |-> 0, inbound |-> 0] >>
                ELSE hits])

\* The zero-fill of InventoryPipeline.transform: the template of every
\* channel of the table with every master SKU, at the channel's first date,
\* left-merged with the table.
inventory_zero_fill(combined_df) ==
    LET processed == unique_channels(combined_df)
        date_of(ch) ==
            LET mine == {i \in DOMAIN combined_df : combined_df[i].channel = ch}
            IN  IF mine = {} THEN Today
                ELSE combined_df[CHOOSE i \in mine : \A j \in mine : i <= j].Date
        template_rows ==
            FlattenSeq([c \in DOMAIN processed |->
                [s \in DOMAIN SKU_ORDER |->
                    [channel |-> processed[c], sku |-> SKU_ORDER[s],
                     Date |-> date_of(processed[c])]]])
    IN  FlattenSeq([k \in DOMAIN template_rows |->
            LET tr == template_rows[k]
                hits == SelectSeq(combined_df, LAMBDA r :
                           r.channel = tr.channel /\ r.sku = tr.sku /\ r.Date = tr.Date)
            IN  IF hits = <<>>
                THEN << [channel |-> tr.channel, sku |-> tr.sku, Date |-> tr.Date,
                         units_sold |-> 0, inventory |-> 0, inbound |-> 0] >>
                ELSE hits])

\* InventoryPipeline.transform(combined_df): `raised` is the exception that
\* escapes it, `data` the validated records or NoneDf when validation fails.
inventory_transform(combined_df, today) ==
    LET merged_df == inventory_zero_fill(combined_df)
        with_ids ==
            [i \in DOMAIN merged_df |->
                [c \in InventoryMergedColumns |->
                    CASE c = "id" -> << today, merged_df[i].channel, merged_df[i].sku >>
                      [] c = "sku_channel_id" -> << merged_df[i].channel, merged_df[i].sku >>
                      [] OTHER -> merged_df[i][c]]]
        renamed == [i \in DOMAIN with_ids |-> rename_columns(with_ids[i], InventoryRename)]
        final_columns == Range(InventoryItem_columns)
        selected == [i \in DOMAIN renamed |-> [c \in final_columns |-> renamed[i][c]]]
    IN  IF \E i \in DOMAIN renamed : ~(final_columns \subseteq DOMAIN renamed[i])
        THEN [raised |-> "KeyError", data |-> NoneDf]
        ELSE IF \A i \in DOMAIN selected : InventoryItem_valid(selected[i])
        THEN [raised |-> "", data |-> selected]
        ELSE [raised |-> "", data |-> NoneDf]

(***************************************************************************)
(* Inputs of a run                                                         *)
(***************************************************************************)
SalesRow(k, q, r) == [key |-> k, qty |-> q, rev |-> r]

ShopRow(c, k, q, r) == [channel |-> c, key |-> k, qty |-> q, rev |-> r]

NotANumber == Str(<< "N", "/", "A" >>)

\* The raw rows a file of each sales source may hold in a pipeline run.
RawRows(prefix) ==
    CASE prefix = "Walmart_sales_" ->
            { SalesRow("5001", 1, Num(10)), SalesRow("5001", 2, Num(-10)),
              SalesRow("9999", 1, NotANumber) }
      [] prefix = "Amazon_sales_" ->
            { SalesRow("5001s", 1, Num(10)), SalesRow("ZZZ", -1, Num(-10)) }
      [] prefix = "TikTok_sales_" ->
            { SalesRow("1729500444198670817", 1, Num(10)) }
      [] prefix = "FBA_report_" ->
            { [sku |-> "5001s", units_sold |-> 2, available |-> 3, fc_transfer |-> 1,
               inbound |-> -1] }
      [] prefix = "AWD_report_" ->
            { [sku |-> "3001s", available |-> 5, inbound |-> 1] }
      [] prefix = "Flexport_levels_" ->
            { [msku |-> "3001", dtc |-> 4, rs |-> 1, wip |-> 2] }
      [] prefix = "Flexport_orders_" ->
            { [status |-> "COMPLETE",
               items |-> << [dsku |-> "DU100QJK94P", qty |-> 2],
                            [dsku |-> "ZZZ", qty |-> 1] >>] }
      [] prefix = "Flexport_inbound_" ->
            { [msku |-> "3001", under_60_days |-> 1, to_deliverr |-> 2] }
      [] prefix = "Walmart_inventory_" ->
            { [sku |-> "5001", available |-> 3, inbound |-> 1] }
      [] prefix = "Shopify_sales_" ->
            { ShopRow("TikTok", "5002", 3, Num(30)),
              ShopRow("Online Store", "5001", 1, Num(-10)),
              ShopRow("Online Store", "ZZZ", 3, Num(30)),
              ShopRow("TikTok", "5002", 0, Num(-10)) }

\* Sequences of at most n elements of S.
RECURSIVE SeqsUpTo(_, _)
SeqsUpTo(S, n) ==
    IF n = 0 THEN { <<>> }
    ELSE LET shorter == SeqsUpTo(S, n - 1)
         IN  shorter \cup { Append(s, x) : s \in { q \in shorter : Len(q) = n - 1 }, x \in S }

\* The parsers that subscript a column before they read any row: a table
\* without that column makes them raise whatever its rows.
SubscriptsColumn ==
    { "Walmart_sales_", "Shopify_sales_", "FBA_report_", "AWD_report_",
      "Flexport_levels_", "Flexport_orders_", "Flexport_inbound_",
      "Walmart_inventory_" }

\* What a file that exists may hold: a file pandas cannot read, a table
\* that lacks a column the parser subscripts, or a table of up to n rows.
FileContents(prefix, n) ==
    { [readable |-> FALSE, cols_ok |-> TRUE, rows |-> <<>>] }
    \cup (IF prefix \in SubscriptsColumn
          THEN { [readable |-> TRUE, cols_ok |-> FALSE, rows |-> <<>>] } ELSE {})
    \cup { [readable |-> TRUE, cols_ok |-> TRUE, rows |-> rs] :
            rs \in SeqsUpTo(RawRows(prefix), n) }

NoFile == [readable |-> FALSE, cols_ok |-> FALSE, rows |-> <<>>]

Prefixes ==
    { "Walmart_sales_", "Amazon_sales_", "TikTok_sales_", "Shopify_sales_",
      "FBA_report_", "AWD_report_", "Flexport_levels_", "Flexport_orders_",
      "Flexport_inbound_", "Walmart_inventory_" }

RECURSIVE RowsIn(_, _)
RowsIn(files, S) ==
    IF S = {} THEN 0
    ELSE LET p == CHOOSE x \in S : TRUE
         IN  Len(files[p].rows) + RowsIn(files, S \ {p})

\* Raw rows the files read so far hold, all together.
rows_used == RowsIn(content, Prefixes)

\* A file that exists but cannot be read, or lacks a column its parser reads.
IsFault(file) == file # NoFile /\ (~file.readable \/ ~file.cols_ok)

\* Such files among those read so far.
faults_used == Cardinality({ p \in Prefixes : IsFault(content[p]) })

\* The files whose date extract reads: the one primary_date picks.
DatedKeys == { "primary", "levels", "inventory" }

(***************************************************************************)
(* DataPipeline.run: src/src/pipeline.py                                   *)
(***************************************************************************)
\* No function is applied on its own in a pipeline run.
NoCall == [fn |-> "none"]

NoResult == [raised |-> "none"]

Init ==
    /\ report_type \in { "inventory", "sales" }
    /\ test_mode \in (IF report_type = "sales" THEN BOOLEAN ELSE { FALSE })
    /\ system_date = Today
    /\ directory = {}
    /\ content = [p \in Prefixes |-> NoFile]
    /\ pc = "extract"
    /\ idx = 1
    /\ dataframes = <<>>
    /\ bundle_rows = <<>>
    /\ processed_channels = {}
    /\ channels = IF report_type = "sales" THEN <<>> ELSE CHANNEL_ORDER
    /\ status_summary = [ch \in Range(channels) |-> NoDate]
    /\ validated_data = NoneDf
    /\ exc = ""
    /\ status_lines = <<>>
    /\ calls = <<>>
    /\ fn_call = NoCall
    /\ fn_result = NoResult

\* status_summary[ch] set to the run's date instead of the file's date.
set_status_today(summary, chans, d) ==
    [ch \in DOMAIN summary \cup chans |->
        IF ch \in chans THEN (IF d = NoDate THEN NoDate ELSE Today) ELSE summary[ch]]

\* status_summary[ch] = d
set_status(summary, chans, d) ==
    [ch \in DOMAIN summary \cup chans |-> IF ch \in chans THEN d ELSE summary[ch]]

\* One iteration of SalesPipeline.extract's loop over PARSER_REGISTRY.  The
\* directory entry and the content of the source's file are drawn here, when
\* the run first looks at them.
SalesExtractSource ==
    /\ report_type = "sales" /\ pc = "extract" /\ idx <= Len(SalesRegistry)
    /\ \E present \in BOOLEAN, d \in Dates,
          file \in FileContents(SalesRegistry[idx].file, MaxRows - rows_used)
                   \cup { NoFile } :
         /\ present = (file # NoFile)
         /\ IsFault(file) => faults_used < MaxFaults
         /\ file.rows = <<>> => d = system_date
         /\ LET parser == SalesRegistry[idx]
                appended(found_info, res, new_rows, new_bundles) ==
                    IF ~found_info.found
                    THEN /\ idx' = idx + 1
                         /\ UNCHANGED << pc, exc, dataframes, bundle_rows,
                                         processed_channels, status_summary >>
                    ELSE IF res.raised # ""
                    THEN /\ pc' = "crashed"
                         /\ exc' = res.raised
                         /\ UNCHANGED << idx, dataframes, bundle_rows,
                                         processed_channels, status_summary >>
                    ELSE IF IsData(res.df)
                    THEN /\ idx' = idx + 1
                         /\ dataframes' = dataframes \o new_rows
                         /\ bundle_rows' = bundle_rows \o new_bundles
                         /\ processed_channels' =
                               processed_channels \cup channels_in(new_rows)
                                                  \cup channels_in(new_bundles)
                         /\ status_summary' =
                               set_status(status_summary, channels_in(new_rows),
                                          found_info.date)
                         /\ UNCHANGED << pc, exc >>
                    ELSE /\ idx' = idx + 1
                         /\ UNCHANGED << pc, exc, dataframes, bundle_rows,
                                         processed_channels, status_summary >>
                parsed(found_info, res) ==
                    appended(found_info, res,
                             sales_source_rows(parser.channel, res.df, found_info.date),
                             sales_source_bundles(parser.channel, res, found_info.date))
                found(found_info) ==
                    parsed(found_info,
                           sales_parser(parser.channel, found_info.path, file))
                listed(new_directory) ==
                    /\ directory' = new_directory
                    /\ found(find_latest_report(new_directory, parser.file, system_date))
            IN  /\ content' = [content EXCEPT ![parser.file] = file]
                /\ listed(IF present
                          THEN directory \cup { ReportFile(parser.file, d) }
                          ELSE directory)
    /\ UNCHANGED << report_type, test_mode, system_date, fn_call, fn_result, channels,
                    validated_data, status_lines, calls >>

\* One iteration of InventoryPipeline.extract's loop over PARSER_REGISTRY.
\* The directory entries and the contents of the source's files are drawn
\* here; a file the loop does not look for is not drawn.
InventoryExtractSource ==
    /\ report_type = "inventory" /\ pc = "extract" /\ idx <= Len(InventoryRegistry)
    /\ LET source == InventoryRegistry[idx]
           req == source.required_files
           slots == DOMAIN req
           left == MaxRows - rows_used
           slot_files(k) ==
               IF k \in slots THEN FileContents(req[k].prefix, left) \cup { NoFile }
               ELSE { NoFile }
           slot_dates(k, file) ==
               IF k \in slots /\ file.rows # <<>> /\ req[k].key \in DatedKeys
               THEN Dates ELSE { system_date }
       IN  \E f1 \in slot_files(1), f2 \in slot_files(2), f3 \in slot_files(3) :
           \E d1 \in slot_dates(1, f1), d2 \in slot_dates(2, f2), d3 \in slot_dates(3, f3) :
             /\ Len(f1.rows) + Len(f2.rows) + Len(f3.rows) <= left
             /\ Cardinality({ k \in slots : IsFault(<< f1, f2, f3 >>[k]) })
                   <= MaxFaults - faults_used
             /\ LET drawn == << f1, f2, f3 >>
                    dates == << d1, d2, d3 >>
                    new_directory ==
                        directory \cup { ReportFile(req[k].prefix, dates[k]) :
                                            k \in { j \in slots : drawn[j] # NoFile } }
                    resolved == resolve_required_files(source, new_directory, system_date)
                    files == [key \in { req[k].key : k \in slots } |->
                                drawn[CHOOSE k \in slots : req[k].key = key]]
                    res == inventory_parser(source.channel_name, resolved.file_paths, files)
                    date == primary_date(resolved.report_dates)
                    new_rows == [i \in DOMAIN res.df |->
                                    [sku |-> res.df[i].sku, channel |-> res.df[i].channel,
                                     Date |-> date, units_sold |-> res.df[i].units_sold,
                                     inventory |-> res.df[i].inventory,
                                     inbound |-> res.df[i].inbound]]
                IN  /\ \A k \in slots : k > resolved.looked => drawn[k] = NoFile
                    /\ directory' = new_directory
                    /\ content' = [p \in Prefixes |->
                                     IF \E k \in slots : req[k].prefix = p
                                     THEN drawn[CHOOSE k \in slots : req[k].prefix = p]
                                     ELSE content[p]]
                    /\ IF ~resolved.all_files_found
                       THEN /\ idx' = idx + 1
                            /\ status_summary' =
                                  set_status(status_summary,
                                             skipped_channels(source.channel_name), NoDate)
                            /\ UNCHANGED << pc, exc, dataframes >>
                       ELSE IF res.raised # ""
                       THEN /\ pc' = "crashed"
                            /\ exc' = res.raised
                            /\ UNCHANGED << idx, dataframes, status_summary >>
                       ELSE IF IsData(res.df)
                       THEN /\ idx' = idx + 1
                            /\ dataframes' = dataframes \o new_rows
                            /\ status_summary' =
                                  set_status(status_summary,
                                             Range(unique_channels(res.df)), date)
                            /\ UNCHANGED << pc, exc >>
                       ELSE /\ idx' = idx + 1
                            /\ UNCHANGED << pc, exc, dataframes, status_summary >>
    /\ UNCHANGED << report_type, test_mode, system_date, fn_call, fn_result, bundle_rows,
                    processed_channels, channels, validated_data, status_lines, calls >>

\* The end of InventoryPipeline.extract with data, and run's call of
\* InventoryPipeline.transform: an exception ends the run, a None result ends
\* it without a load.
InventoryTransform ==
    /\ report_type = "inventory" /\ pc = "extract" /\ idx = Len(InventoryRegistry) + 1
    /\ dataframes # <<>>
    /\ LET result == inventory_transform(dataframes, system_date)
       IN  /\ validated_data' = result.data
           /\ exc' = result.raised
           /\ pc' = IF result.raised # "" THEN "crashed"
                    ELSE IF result.data = NoneDf THEN "failed" ELSE "load"
    /\ UNCHANGED << report_type, test_mode, system_date, fn_call, fn_result, directory, content, idx,
                    dataframes, bundle_rows, processed_channels, channels,
                    status_summary, status_lines, calls >>

\* The end of SalesPipeline.extract with data (self.channels is set), and
\* run's call of SalesPipeline.transform: a None result ends the run.
SalesTransform ==
    /\ report_type = "sales" /\ pc = "extract" /\ idx = Len(SalesRegistry) + 1
    /\ dataframes # <<>>
    /\ channels' = SortedStrings(processed_channels)
    /\ LET result == sales_transform(dataframes, bundle_rows, system_date)
       IN  /\ validated_data' = result
           /\ pc' = IF result = NoneDf THEN "failed" ELSE "load"
    /\ UNCHANGED << report_type, test_mode, system_date, fn_call, fn_result, directory, content, idx,
                    dataframes, bundle_rows, processed_channels,
                    status_summary, exc, status_lines, calls >>

\* The status lines load logs: one per channel of self.channels.
load_status_lines(chans, summary) ==
    [i \in DOMAIN chans |->
        [channel |-> chans[i],
         date |-> IF chans[i] \in DOMAIN summary THEN summary[chans[i]] ELSE NoDate]]

\* load with the webhook post made in test mode too.
load_calls_post_in_test_mode(data, summary, test) ==
    (IF data # <<>>
     THEN << [fn |-> "save_outputs", records |-> Len(data), metadata |-> << >>] >>
     ELSE << >>)
    \o << [fn |-> "post_to_webhook", records |-> Len(data), metadata |-> summary] >>

\* The collaborator calls load makes: save_outputs when there are records,
\* post_to_webhook unless in test mode.  A call is recorded with the number
\* of records it is handed (the records are validated_data) and its metadata.
load_calls(data, summary, test) ==
    (IF data # <<>>
     THEN << [fn |-> "save_outputs", records |-> Len(data), metadata |-> << >>] >>
     ELSE << >>)
    \o (IF ~test
        THEN << [fn |-> "post_to_webhook", records |-> Len(data), metadata |-> summary] >>
        ELSE << >>)

\* DataPipeline.load(validated_data), called by run after transform.
Load ==
    /\ pc = "load"
    /\ status_lines' = load_status_lines(channels, status_summary)
    /\ calls' = calls \o load_calls(validated_data, status_summary, test_mode)
    /\ pc' = "done"
    /\ UNCHANGED << report_type, test_mode, system_date, fn_call, fn_result, directory, content, idx,
                    dataframes, bundle_rows, processed_channels, channels,
                    status_summary, validated_data, exc >>

\* The end of extract without data (it returns None), and run's
\* self.load([]).
LoadEmpty ==
    /\ pc = "extract"
    /\ idx = 1 + (IF report_type = "sales" THEN Len(SalesRegistry)
                  ELSE Len(InventoryRegistry))
    /\ dataframes = <<>>
    /\ validated_data' = <<>>
    /\ status_lines' = load_status_lines(channels, status_summary)
    /\ calls' = calls \o load_calls(<<>>, status_summary, test_mode)
    /\ pc' = "done"
    /\ UNCHANGED << report_type, test_mode, system_date, fn_call, fn_result, directory, content, idx,
                    dataframes, bundle_rows, processed_channels, channels,
                    status_summary, exc >>

Next ==
    \/ SalesExtractSource
    \/ SalesTransform
    \/ InventoryExtractSource
    \/ InventoryTransform
    \/ LoadEmpty
    \/ Load

Spec == Init /\ [][Next]_vars

(***************************************************************************)
(* The bundle expansion and the sales parsers applied on their own         *)
(***************************************************************************)
\* The mapping each sales source expands its rows with.
mapping_of(channel) ==
    CASE channel = "Amazon" -> AMAZON_SKU_MAP
      [] channel = "TikTok Shop" -> TIKTOK_ID_MAP
      [] channel = "Mixed" -> SHOPIFY_SKU_MAP

prefix_of(channel) ==
    LET k == CHOOSE i \in DOMAIN SalesRegistry : SalesRegistry[i].channel = channel
    IN  SalesRegistry[k].file

\* The raw rows a file may hold when its parser is applied on its own.
ParserRows(channel) ==
    CASE channel = "Walmart" -> RawRows("Walmart_sales_")
      [] channel = "Amazon" ->
            { SalesRow("5001s", 1, Num(10)), SalesRow("ZZZ", -1, Num(-10)),
              SalesRow("4001", 2, Str(<< "$", "1", ",", "0", "0", "0", ".", "5" >>)),
              SalesRow("5001", 1, NotANumber), SalesRow("4001s", 1, EmptyCell) }
      [] channel = "TikTok Shop" ->
            { SalesRow("1729500444198670817", 1, Num(10)),
              SalesRow("1731511743027384801", 2, Num(30)),
              SalesRow("ZZZ", 1, Num(10)) }
      [] channel = "Mixed" ->
            { ShopRow("TikTok", "5002", 3, Num(30)),
              ShopRow("Online Store", "5001", 1, Num(-10)),
              ShopRow("Online Store", "ZZZ", 3, Num(30)),
              ShopRow("TikTok", "5002", 0, Num(-10)),
              ShopRow("Online Store", "4001-3001", 3, Num(30)),
              ShopRow("Marketplace Connect", "5003", 2, Num(45)),
              ShopRow("Draft Orders", "5002", 1, Num(20)),
              ShopRow("Faire", "LysineMonolaurinandCleanLysine", 1, Num(15)),
              ShopRow("Shop", "5002", 1, Str(<< "$", "3", "0" >>)) }

\* The dates the files of a directory may carry when find_latest_report is
\* applied on its own: the day before today, today, the day after.
CallDates == { Today - 1, Today, Today + 1 }

\* The prefixes of those files: the one searched for and another one.
CallPrefixes == { "AWD_report_", "FBA_report_" }

\* Entries the scan has to pass over, each named or dated later than every
\* report file: a directory with a report's name, a file whose date segment
\* is no calendar date (2025-13-99), a file with more than ".csv" after the
\* date, a report file inside a subdirectory.
IrregularEntries ==
    { DirEntry("AWD_report_", Today + 1, "dir", TRUE, TRUE, FALSE),
      DirEntry("AWD_report_", Today + 2, "file", TRUE, FALSE, FALSE),
      DirEntry("AWD_report_", Today + 1, "file", FALSE, TRUE, FALSE),
      DirEntry("AWD_report_", Today + 1, "file", TRUE, TRUE, TRUE) }

\* The calls of find_latest_report the model makes.
FindCalls ==
    { [fn |-> "find_latest_report", dir |-> d, prefix |-> "AWD_report_"] :
        d \in SUBSET ({ ReportFile(p, d) : p \in CallPrefixes, d \in CallDates }
                      \cup IrregularEntries) }

\* The calls of _process_bundled_row and of the sales parsers the model makes.
SalesCalls ==
    UNION { { [fn |-> "_process_bundled_row", channel |-> ch, row |-> r] :
                r \in ParserRows(ch) }
            : ch \in { "Amazon", "TikTok Shop", "Mixed" } }
    \cup UNION { { [fn |-> "parser", channel |-> ch,
                    file |-> [readable |-> TRUE, cols_ok |-> TRUE, rows |-> rs]] :
                    rs \in SeqsUpTo(ParserRows(ch), MaxRows) }
                 : ch \in { "Walmart", "Amazon", "TikTok Shop", "Mixed" } }

\* The rows a stock-levels file may hold when the freight/3PL parser is
\* applied on its own: two rows of one SKU, a row of another, a row of a SKU
\* that is not a master SKU.
LevelsRows ==
    { [msku |-> "3001", dtc |-> 4, rs |-> 10, wip |-> 15],
      [msku |-> "3001", dtc |-> 1, rs |-> 8, wip |-> 0],
      [msku |-> "5001", dtc |-> 2, rs |-> 1, wip |-> 0],
      [msku |-> "ZZZ", dtc |-> 7, rs |-> 7, wip |-> 0] }

\* A readable, well-formed file of the given rows.
FileOf(rows) == [readable |-> TRUE, cols_ok |-> TRUE, rows |-> rows]

\* The rows an orders file may hold when the freight/3PL parser is applied
\* on its own: an order with a mapped and an unmapped item, a cancelled
\* order, an order with items of two SKUs, an order without items.
OrdersRows ==
    { [status |-> "COMPLETE",
       items |-> << [dsku |-> "ZZZ", qty |-> 1], [dsku |-> "DU100QJK94P", qty |-> 2] >>],
      [status |-> "CANCELLED",
       items |-> << [dsku |-> "DU100QJK94P", qty |-> 5] >>],
      [status |-> "SHIPPED",
       items |-> << [dsku |-> "DT0W1B9XFKY", qty |-> 1], [dsku |-> "DU100QJK94P", qty |-> 1] >>],
      [status |-> "COMPLETE", items |-> << >>] }

\* The calls of parse_flexport_reports the model makes with the orders file
\* drawn and the levels file fixed.
FlexportOrdersCalls ==
    { [fn |-> "parse_flexport_reports",
       file_paths |-> [levels |-> "Flexport_levels_", orders |-> "Flexport_orders_",
                       inbound |-> "Flexport_inbound_"],
       files |-> [levels |-> FileOf(<< CHOOSE r \in RawRows("Flexport_levels_") : TRUE >>),
                  orders |-> FileOf(os),
                  inbound |-> FileOf(<< CHOOSE r \in RawRows("Flexport_inbound_") : TRUE >>)]] :
        os \in SeqsUpTo(OrdersRows, MaxRows) }

\* The calls of parse_flexport_reports the model makes: the three files
\* present, the levels file drawn.
FlexportCalls ==
    { [fn |-> "parse_flexport_reports",
       file_paths |-> [levels |-> "Flexport_levels_", orders |-> "Flexport_orders_",
                       inbound |-> "Flexport_inbound_"],
       files |-> [levels |-> FileOf(rs),
                  orders |-> FileOf(<< CHOOSE r \in RawRows("Flexport_orders_") : TRUE >>),
                  inbound |-> FileOf(<< CHOOSE r \in RawRows("Flexport_inbound_") : TRUE >>)]] :
        rs \in SeqsUpTo(LevelsRows, MaxRows) }

\* The rows a marketplace-fulfillment report may hold when parse_fba_report is
\* applied on its own: two rows of one allow-listed SKU, a row of another, a
\* row whose Merchant SKU is a master SKU that is not allow-listed, a row of
\* an unknown SKU.
FbaRows ==
    { [sku |-> "5001s", units_sold |-> 2, available |-> 3, fc_transfer |-> 1, inbound |-> 1],
      [sku |-> "5001s", units_sold |-> 1, available |-> 0, fc_transfer |-> 2, inbound |-> 0],
      [sku |-> "3001s", units_sold |-> 4, available |-> 5, fc_transfer |-> 0, inbound |-> 2],
      [sku |-> "5001", units_sold |-> 7, available |-> 7, fc_transfer |-> 7, inbound |-> 7],
      [sku |-> "ZZZ", units_sold |-> 9, available |-> 9, fc_transfer |-> 9, inbound |-> 9] }

\* The calls of parse_fba_report the model makes: the report present, its
\* rows drawn.
FbaCalls ==
    { [fn |-> "parse_fba_report", file_paths |-> [primary |-> "FBA_report_"],
       files |-> [primary |-> FileOf(rs)]] : rs \in SeqsUpTo(FbaRows, MaxRows) }

\* The calls of load_csv the model makes, as the parsers make them: the path
\* of a report file or, for the optional inbound file that was not found,
\* None; the file missing, unreadable or holding a table; with or without
\* skiprows.
LoadCsvCalls ==
    { [fn |-> "load_csv", file_path |-> "Flexport_inbound_", file |-> f, kwargs |-> kw] :
        f \in { NoFile, [readable |-> FALSE, cols_ok |-> TRUE, rows |-> <<>>] }
              \cup { FileOf(rs) : rs \in SeqsUpTo(RawRows("Flexport_inbound_"), MaxRows) },
        kw \in { { "file_path" }, { "file_path", "skiprows" } } }
    \cup { [fn |-> "load_csv", file_path |-> NonePath, file |-> NoFile,
            kwargs |-> { "file_path" }] }

\* A metric cell of a drawn table: no row for the pair, or a row with 0 or 3.
NoRow == 0 - 1

CellValues == { NoRow, 0, 3 }

\* The channels of the tables the zero-fill is applied to on its own.
FillChannels(pipeline) ==
    IF pipeline = "sales" THEN << "Walmart", "Amazon" >> ELSE << "FBA", "DTC" >>

\* One row of an extracted table.
FillRow(pipeline, ch, sku, d, v) ==
    IF pipeline = "sales"
    THEN [SKU |-> sku, Channel |-> ch, Date |-> d, Units |-> v, Revenue |-> v * RevScale]
    ELSE [channel |-> ch, sku |-> sku, Date |-> d,
          units_sold |-> v, inventory |-> v, inbound |-> 0]

\* The table with, for the channels cs in order and the master SKUs in order,
\* a row dated ds[c] where the cell v[c][s] holds a value.
TableOf(pipeline, cs, ds, v) ==
    FlattenSeq([c \in DOMAIN cs |->
        LET kept == SelectSeq([s \in DOMAIN SKU_ORDER |-> s], LAMBDA s : v[c][s] # NoRow)
        IN  [k \in DOMAIN kept |->
                FillRow(pipeline, cs[c], SKU_ORDER[kept[k]], ds[c], v[c][kept[k]])]])

\* A SKU a parser may emit that is not in the master list.
NonMasterSku == "9999"

\* The rows of SKUs outside the master list a drawn table ends with: none, or
\* one row of the table's first channel at that channel's date.
ExtraRows(pipeline, cs, ds, extra) ==
    IF extra THEN << FillRow(pipeline, cs[1], NonMasterSku, ds[1], 3) >> ELSE <<>>

\* The calls of the zero-fill the model makes: tables of one or two channels,
\* in either order, each channel with one date, with or without a row of a
\* SKU outside the master list.
ZeroFillCalls ==
    UNION { UNION { { [fn |-> "zero_fill", pipeline |-> pl,
                       table |-> TableOf(pl, cs, ds, v) \o ExtraRows(pl, cs, ds, extra)] :
                        ds \in [DOMAIN cs -> Dates],
                        v \in [DOMAIN cs -> [DOMAIN SKU_ORDER -> CellValues]],
                        extra \in BOOLEAN }
                    : cs \in { FillChannels(pl),
                               << FillChannels(pl)[2], FillChannels(pl)[1] >>,
                               << FillChannels(pl)[1] >>, << FillChannels(pl)[2] >> } }
            : pl \in { "inventory", "sales" } }

\* The calls the model makes of functions applied on their own.
Calls == SalesCalls \cup FindCalls \cup FlexportCalls \cup FlexportOrdersCalls
         \cup LoadCsvCalls \cup FbaCalls
         \cup { c \in ZeroFillCalls : c.table # <<>> }

ParserInit ==
    /\ fn_call \in Calls
    /\ fn_result = NoResult
    /\ pc = "call"
    /\ report_type = "sales"
    /\ test_mode = FALSE
    /\ system_date = Today
    /\ directory = {}
    /\ content = [p \in Prefixes |-> NoFile]
    /\ idx = 1
    /\ dataframes = <<>>
    /\ bundle_rows = <<>>
    /\ processed_channels = {}
    /\ channels = <<>>
    /\ status_summary = << >>
    /\ validated_data = NoneDf
    /\ exc = ""
    /\ status_lines = <<>>
    /\ calls = <<>>

\* _process_bundled_row(row, mapping_dict, ...)
CallProcessBundledRow ==
    /\ pc = "call" /\ fn_call.fn = "_process_bundled_row"
    /\ fn_result' = process_bundled_row(fn_call.row, mapping_of(fn_call.channel))
    /\ pc' = "returned"
    /\ UNCHANGED << report_type, test_mode, system_date, directory, content, idx,
                    dataframes, bundle_rows, processed_channels, channels,
                    status_summary, validated_data, exc, status_lines, calls, fn_call >>

\* parser["func"]({"primary": path})
CallSalesParser ==
    /\ pc = "call" /\ fn_call.fn = "parser"
    /\ fn_result' = sales_parser(fn_call.channel, prefix_of(fn_call.channel), fn_call.file)
    /\ pc' = "returned"
    /\ UNCHANGED << report_type, test_mode, system_date, directory, content, idx,
                    dataframes, bundle_rows, processed_channels, channels,
                    status_summary, validated_data, exc, status_lines, calls, fn_call >>

\* find_latest_report(directory, prefix)
CallFindLatestReport ==
    /\ pc = "call" /\ fn_call.fn = "find_latest_report"
    /\ fn_result' = find_latest_report(fn_call.dir, fn_call.prefix, system_date)
    /\ pc' = "returned"
    /\ UNCHANGED << report_type, test_mode, system_date, directory, content, idx,
                    dataframes, bundle_rows, processed_channels, channels,
                    status_summary, validated_data, exc, status_lines, calls, fn_call >>

\* parse_flexport_reports(file_paths)
CallFlexportParser ==
    /\ pc = "call" /\ fn_call.fn = "parse_flexport_reports"
    /\ fn_result' = parse_flexport_reports(fn_call.file_paths, fn_call.files)
    /\ pc' = "returned"
    /\ UNCHANGED << report_type, test_mode, system_date, directory, content, idx,
                    dataframes, bundle_rows, processed_channels, channels,
                    status_summary, validated_data, exc, status_lines, calls, fn_call >>

\* parse_fba_report(file_paths)
CallFbaParser ==
    /\ pc = "call" /\ fn_call.fn = "parse_fba_report"
    /\ fn_result' = parse_fba_report(fn_call.file_paths, fn_call.files)
    /\ pc' = "returned"
    /\ UNCHANGED << report_type, test_mode, system_date, directory, content, idx,
                    dataframes, bundle_rows, processed_channels, channels,
                    status_summary, validated_data, exc, status_lines, calls, fn_call >>

\* load_csv(file_path, skiprows=...)
CallLoadCsv ==
    /\ pc = "call" /\ fn_call.fn = "load_csv"
    /\ fn_result' = load_csv(fn_call.file_path, fn_call.file, fn_call.kwargs)
    /\ pc' = "returned"
    /\ UNCHANGED << report_type, test_mode, system_date, directory, content, idx,
                    dataframes, bundle_rows, processed_channels, channels,
                    status_summary, validated_data, exc, status_lines, calls, fn_call >>

\* The zero-fill of transform, applied to a table and then to its own result.
CallZeroFill ==
    /\ pc = "call" /\ fn_call.fn = "zero_fill"
    /\ fn_result' =
          IF fn_call.pipeline = "sales"
          THEN LET filled(once) ==
                      [raised |-> "", once |-> once,
                       twice |-> sales_zero_fill(once, system_date)]
               IN  filled(sales_zero_fill(fn_call.table, system_date))
          ELSE LET filled(once) ==
                      [raised |-> "", once |-> once,
                       twice |-> inventory_zero_fill(once)]
               IN  filled(inventory_zero_fill(fn_call.table))
    /\ pc' = "returned"
    /\ UNCHANGED << report_type, test_mode, system_date, directory, content, idx,
                    dataframes, bundle_rows, processed_channels, channels,
                    status_summary, validated_data, exc, status_lines, calls, fn_call >>

ParserNext ==
    \/ CallProcessBundledRow
    \/ CallSalesParser
    \/ CallFindLatestReport
    \/ CallFlexportParser
    \/ CallLoadCsv
    \/ CallFbaParser
    \/ CallZeroFill

ParserSpec == ParserInit /\ [][ParserNext]_vars

(***************************************************************************)
(* Properties                                                              *)
(***************************************************************************)
\* Transform has returned validated records.
Validated ==
    pc \in { "load", "done" } /\ validated_data # NoneDf /\ validated_data # <<>>

SalesValidated == report_type = "sales" /\ Validated

\* The SKU values of a sales output: the master list and "Bundles".
SalesSkus == MasterSkus \cup { "Bundles" }

\* The records of the output for one (channel, SKU) pair.
RecordsFor(ch, sku) ==
    { i \in DOMAIN validated_data :
        validated_data[i].Channel = ch /\ validated_data[i].SKU = sku }

\* The channels that produced output in this run.
ProducedChannels ==
    IF report_type = "sales" THEN channels_in(dataframes)
    ELSE Range(unique_channels(dataframes))

OutputSkus == IF report_type = "sales" THEN SalesSkus ELSE MasterSkus

InventoryNoData(k) ==
    \E j \in DOMAIN InventoryRegistry[k].required_files :
        LET f == InventoryRegistry[k].required_files[j]
        IN  /\ ~(f.key = "inbound" /\ InventoryRegistry[k].channel_name = "Flexport")
            /\ ~content[f.prefix].readable

RunEnded == pc \in { "done", "crashed", "failed" }

\* C4 as stated: every record of a validated output has non-negative
\* metrics, whatever the input files hold, negative amounts included.
C4_MetricsNonNegative ==
    Validated =>
        \A i \in DOMAIN validated_data :
            IF report_type = "sales"
            THEN validated_data[i].Units >= 0 /\ validated_data[i].Revenue >= 0
            ELSE /\ validated_data[i]["Units Sold"] >= 0
                 /\ validated_data[i]["Inventory"] >= 0
                 /\ validated_data[i]["Inbound"] >= 0

\* Every file of inventory source k is present, readable and well formed.
InventorySourceComplete(k) ==
    \A j \in DOMAIN InventoryRegistry[k].required_files :
        LET file == content[InventoryRegistry[k].required_files[j].prefix]
        IN  file.readable /\ file.cols_ok

\* A required file of inventory source k is absent from the directory.
InventorySourceMissing(k) ==
    \E j \in DOMAIN InventoryRegistry[k].required_files :
        LET f == InventoryRegistry[k].required_files[j]
        IN  /\ ~(f.key = "inbound" /\ InventoryRegistry[k].channel_name = "Flexport")
            /\ content[f.prefix] = NoFile

\* C5 as stated: an inventory run in which one source lacks a required file
\* while every other source is complete ends normally; the channels of the
\* missing source have no record and the status line "No data", every other
\* channel has one record per master SKU.
C5_MissingFileIsolated ==
    \A k \in DOMAIN InventoryRegistry :
        ( /\ report_type = "inventory"
          /\ RunEnded
          /\ InventorySourceMissing(k)
          /\ \A j \in DOMAIN InventoryRegistry \ { k } : InventorySourceComplete(j) )
        =>
        LET missing == skipped_channels(InventoryRegistry[k].channel_name)
        IN  /\ pc = "done"
            /\ validated_data # NoneDf
            /\ \A i \in DOMAIN status_lines :
                  status_lines[i].channel \in missing => status_lines[i].date = NoDate
            /\ \A ch \in Range(CHANNEL_ORDER), sku \in MasterSkus :
                  Cardinality(RecordsFor(ch, sku)) = IF ch \in missing THEN 0 ELSE 1

\* The number of sources the pipeline of this run registers.
RegistryLen ==
    IF report_type = "sales" THEN Len(SalesRegistry) ELSE Len(InventoryRegistry)

\* C6 as stated: no exception raised while a source is parsed ends the run:
\* Extract goes on to the next source, and the failed source's channels are
\* marked as without data.
C6_ParserFailureIsolated ==
    /\ ~(pc = "crashed" /\ idx <= RegistryLen)
    /\ report_type = "sales" =>
          \A k \in DOMAIN SalesRegistry :
              (k < idx /\ content[SalesRegistry[k].file].readable
                       /\ ~content[SalesRegistry[k].file].cols_ok)
              => processed_channels \cap
                    (IF SalesRegistry[k].channel = "Mixed" THEN Range(ShopifyBuckets)
                     ELSE { SalesRegistry[k].channel }) = {}

\* A sales parser has returned from a call on a file of its own.
ParserReturned(channel) ==
    pc = "returned" /\ fn_call.fn = "parser" /\ fn_call.channel = channel

\* The units and the revenue a parser's table holds for one (SKU, channel).
TableUnits(df, sku, ch) ==
    IF df = NoneDf THEN 0
    ELSE UnitsOf(SelectSeq(df, LAMBDA r : r.SKU = sku /\ r.Channel = ch))

TableRevenue(df, sku, ch) ==
    IF df = NoneDf THEN 0
    ELSE RevenueOf(SelectSeq(df, LAMBDA r : r.SKU = sku /\ r.Channel = ch))

\* The row of the scenario: Sales channel "TikTok", Product variant SKU
\* "5002", Quantity ordered 3, Net sales 30.
ScenarioRow == ShopRow("TikTok", "5002", 3, Num(30))

\* C7 as stated: the storefront parser, given the scenario row alone, returns
\* the one row SKU 5001, Channel "TikTok Shopify", Units 3, Revenue 15, and
\* the bucket's bundle statistics are 3 units and 30 revenue.
C7_ScenarioAsStated ==
    (ParserReturned("Mixed") /\ fn_call.file.rows = << ScenarioRow >>) =>
        /\ fn_result.raised = ""
        /\ fn_result.df = << [SKU |-> "5001", Channel |-> "TikTok Shopify",
                              Units |-> 3, Revenue |-> 15 * RevScale] >>
        /\ fn_result.stats["TikTok Shopify"] = [Units |-> 3, Revenue |-> 30 * RevScale]

\* C7 amended: the two items of the scenario row, each 3 units and 15
\* revenue, are summed by the parser's grouping: given the row alone the
\* parser returns the one row SKU 5001, Channel "TikTok Shopify", Units 6,
\* Revenue 30; the row at the end of any file the parser accepts adds 6
\* units and 30 revenue to that row, and 3 units and 30 revenue to the
\* bucket's bundle statistics.
C7_ScenarioSummed ==
    /\ (ParserReturned("Mixed") /\ fn_call.file.rows = << ScenarioRow >>) =>
          /\ fn_result.raised = ""
          /\ fn_result.df = << [SKU |-> "5001", Channel |-> "TikTok Shopify",
                                Units |-> 6, Revenue |-> 30 * RevScale] >>
          /\ fn_result.stats["TikTok Shopify"] = [Units |-> 3, Revenue |-> 30 * RevScale]
    /\ ( /\ ParserReturned("Mixed")
         /\ fn_call.file.rows # <<>>
         /\ fn_call.file.rows[Len(fn_call.file.rows)] = ScenarioRow
         /\ fn_result.raised = "" ) =>
          LET rows == fn_call.file.rows
              before == parse_shopify_sales_report(
                            prefix_of("Mixed"),
                            [fn_call.file EXCEPT !.rows = SubSeq(rows, 1, Len(rows) - 1)])
          IN  /\ before.raised = ""
              /\ TableUnits(fn_result.df, "5001", "TikTok Shopify")
                    = TableUnits(before.df, "5001", "TikTok Shopify") + 6
              /\ TableRevenue(fn_result.df, "5001", "TikTok Shopify")
                    = TableRevenue(before.df, "5001", "TikTok Shopify") + 30 * RevScale
              /\ fn_result.stats["TikTok Shopify"].Units
                    = before.stats["TikTok Shopify"].Units + 3
              /\ fn_result.stats["TikTok Shopify"].Revenue
                    = before.stats["TikTok Shopify"].Revenue + 30 * RevScale

\* The storefront parser has returned from a file of two scenario rows.
C7_Witness ==
    /\ ParserReturned("Mixed")
    /\ fn_call.file.rows = << ScenarioRow, ScenarioRow >>
    /\ fn_result.raised = ""

C9_UnmappedRowContributesNothing ==
    \A ch \in { "Amazon", "TikTok Shop", "Mixed" } :
        ( /\ ParserReturned(ch)
          /\ \E i \in DOMAIN fn_call.file.rows :
                fn_call.file.rows[i].key \notin DOMAIN mapping_of(ch)
          /\ \A i \in DOMAIN fn_call.file.rows : fn_call.file.rows[i].rev.t = "num" ) =>
            LET mapped == SelectSeq(fn_call.file.rows,
                                    LAMBDA r : r.key \in DOMAIN mapping_of(ch))
                without == sales_parser(ch, prefix_of(ch),
                                        [fn_call.file EXCEPT !.rows = mapped])
            IN  /\ fn_result.raised = ""
                /\ fn_result.df = without.df
                /\ fn_result.stats = without.stats

\* The raw rows of the file that feeds a sales channel or storefront bucket.
SourceRowsOf(ch) ==
    CASE ch = "Walmart" -> content["Walmart_sales_"].rows
      [] ch = "Amazon" -> content["Amazon_sales_"].rows
      [] ch = "TikTok Shop" -> content["TikTok_sales_"].rows
      [] OTHER -> SelectSeq(content["Shopify_sales_"].rows,
                            LAMBDA r : bucket_of(r.channel) = ch)

\* The SKU list a raw row of a channel is mapped to: empty when unmapped; the
\* Walmart file names the SKU itself.
ListOf(ch, r) ==
    LET m == CASE ch = "Amazon" -> AMAZON_SKU_MAP
               [] ch = "TikTok Shop" -> TIKTOK_ID_MAP
               [] OTHER -> SHOPIFY_SKU_MAP
    IN  IF ch = "Walmart" THEN << r.key >>
        ELSE IF r.key \in DOMAIN m THEN m[r.key] ELSE << >>

\* The rows the parser of a channel expands: the storefront parser drops
\* draft orders and rows with neither a positive amount nor a positive
\* quantity, the other parsers drop nothing.
KeptRowsOf(ch) ==
    IF ch \in Range(ShopifyBuckets)
    THEN SelectSeq(SourceRowsOf(ch), LAMBDA r :
            r.channel # "Draft Orders" /\ (r.rev.v > 0 \/ r.qty > 0))
    ELSE SourceRowsOf(ch)

\* Quantity and amount of the rows of a table mapped to more than one SKU.
BundleUnits(ch, rows) ==
    LET b == SelectSeq(rows, LAMBDA r : Len(ListOf(ch, r)) > 1)
    IN  SeqSum([i \in DOMAIN b |-> b[i].qty])

BundleRevenue(ch, rows) ==
    LET b == SelectSeq(rows, LAMBDA r : Len(ListOf(ch, r)) > 1)
    IN  SeqSum([i \in DOMAIN b |-> clean_money(b[i].rev).v])

\* Units and revenue shares the rows of a table give one member SKU.
Positions(ch, r, sku) ==
    Cardinality({ p \in DOMAIN ListOf(ch, r) : ListOf(ch, r)[p] = sku })

ShareUnits(ch, rows, sku) ==
    SeqSum([i \in DOMAIN rows |-> rows[i].qty * Positions(ch, rows[i], sku)])

ShareRevenue(ch, rows, sku) ==
    SeqSum([i \in DOMAIN rows |->
        IF Positions(ch, rows[i], sku) = 0 THEN 0
        ELSE (clean_money(rows[i].rev).v \div Len(ListOf(ch, rows[i])))
                * Positions(ch, rows[i], sku)])

\* C10 as stated: in a validated sales output the "Bundles" record of every
\* channel and bucket holds the quantity and the amount summed over the raw
\* rows of that channel or bucket mapped to more than one SKU.
C10_BundlesOverRawRows ==
    SalesValidated =>
        \A ch \in Range(SALES_CHANNEL_ORDER) : \A i \in RecordsFor(ch, "Bundles") :
            /\ validated_data[i].Units = BundleUnits(ch, SourceRowsOf(ch))
            /\ validated_data[i].Revenue = round2(BundleRevenue(ch, SourceRowsOf(ch)))

\* C10 amended: in a validated sales output the "Bundles" record of every
\* channel and bucket holds the quantity and the amount summed over the rows
\* the parser keeps (for the storefront parser: not a draft order, and a
\* positive amount or a positive quantity) that are mapped to more than one
\* SKU; single-SKU and unmapped rows add nothing to it, and every member SKU's
\* record holds its shares of the kept rows.
C10_BundlesOverKeptRows ==
    SalesValidated =>
        \A ch \in Range(SALES_CHANNEL_ORDER) :
            /\ \A i \in RecordsFor(ch, "Bundles") :
                  /\ validated_data[i].Units = BundleUnits(ch, KeptRowsOf(ch))
                  /\ validated_data[i].Revenue = round2(BundleRevenue(ch, KeptRowsOf(ch)))
            /\ \A sku \in MasterSkus : \A i \in RecordsFor(ch, sku) :
                  /\ validated_data[i].Units = ShareUnits(ch, KeptRowsOf(ch), sku)
                  /\ validated_data[i].Revenue
                        = round2(ShareRevenue(ch, KeptRowsOf(ch), sku))

\* A validated sales run whose storefront file holds a bundle row the parser
\* keeps and a bundle row it drops.
C10_Witness ==
    /\ SalesValidated
    /\ content["Shopify_sales_"].rows
          = << ShopRow("TikTok", "5002", 3, Num(30)),
               ShopRow("TikTok", "5002", 0, Num(-10)) >>

\* The place of the freight/3PL source in the inventory registry.
FlexportIdx ==
    CHOOSE k \in DOMAIN InventoryRegistry : InventoryRegistry[k].channel_name = "Flexport"

\* The rows the extracted inventory table holds for one (channel, SKU).
ExtractedRows(ch, sku) ==
    SelectSeq(dataframes, LAMBDA r : r.channel = ch /\ r.sku = sku)

\* C11 as stated: an inventory run that finds well-formed freight/3PL
\* levels and orders files and no inbound file does not skip the source and
\* does not fail in its parser: the extracted table holds, for every master
\* SKU, one DTC row and one Reserve row with inbound 0, the DTC inventory
\* being the summed DTC quantity of the levels file.
C11_InboundOptional ==
    ( /\ report_type = "inventory"
      /\ content["Flexport_levels_"].readable /\ content["Flexport_levels_"].cols_ok
      /\ content["Flexport_orders_"].readable /\ content["Flexport_orders_"].cols_ok
      /\ content["Flexport_inbound_"] = NoFile ) =>
        /\ idx > FlexportIdx
        /\ \A sku \in MasterSkus :
              /\ Len(ExtractedRows("DTC", sku)) = 1
              /\ Len(ExtractedRows("Reserve", sku)) = 1
              /\ ExtractedRows("DTC", sku)[1].inbound = 0
              /\ ExtractedRows("Reserve", sku)[1].inbound = 0
              /\ ExtractedRows("DTC", sku)[1].inventory =
                    SumField(SelectSeq(content["Flexport_levels_"].rows,
                                       LAMBDA r : r.msku = sku), "dtc")

\* A call of find_latest_report has returned.
FindReturned == pc = "returned" /\ fn_call.fn = "find_latest_report"

\* The dates of the report files of the call's prefix that lie directly in
\* the call's directory.
MatchingDates ==
    { f.date : f \in { g \in fn_call.dir :
                          g = ReportFile(fn_call.prefix, g.date) } }

\* C12: when the directory holds no file of the prefix dated today but holds
\* some file of the prefix, find_latest_report returns the file of the prefix
\* with the greatest date, be that date before or after today.
C12_LatestWhenNoTodayFile ==
    (FindReturned /\ system_date \notin MatchingDates /\ MatchingDates # {}) =>
        /\ fn_result.found
        /\ fn_result.path = fn_call.prefix
        /\ fn_result.date \in MatchingDates
        /\ \A d \in MatchingDates : d <= fn_result.date

\* C12's scenario: files dated the day before and the day after today, none
\* dated today; the later one is returned.
C12_Witness ==
    /\ FindReturned
    /\ MatchingDates = { system_date - 1, system_date + 1 }
    /\ fn_result.date = system_date + 1

\* C13: when the directory holds a file of the prefix dated today,
\* find_latest_report returns that file with today's date without walking the
\* directory, whatever other files of the prefix the directory holds.
C13_TodayFileWins ==
    (FindReturned /\ system_date \in MatchingDates) =>
        /\ fn_result.found
        /\ fn_result.path = fn_call.prefix
        /\ fn_result.date = system_date
        /\ ~fn_result.scanned

\* Today's file is returned although a later file of the prefix exists.
C13_Witness ==
    /\ FindReturned
    /\ system_date \in MatchingDates
    /\ system_date + 1 \in MatchingDates
    /\ fn_result.date = system_date

\* A call of the freight/3PL parser has returned a table.
FlexportReturned ==
    /\ pc = "returned" /\ fn_call.fn = "parse_flexport_reports"
    /\ fn_result.raised = "" /\ IsData(fn_result.df)

\* The sum of one column of the levels file over the rows of one SKU.
LevelsSum(sku, col) ==
    SumField(SelectSeq(fn_call.files["levels"].rows, LAMBDA r : r.msku = sku), col)

\* The inventory the returned table gives for one (channel, SKU).
ReturnedInventory(ch, sku) ==
    LET mine == SelectSeq(fn_result.df, LAMBDA r : r.channel = ch /\ r.sku = sku)
    IN  mine[1].inventory

\* C14: in the table the freight/3PL parser returns, the Reserve inventory of
\* every master SKU is the summed RS quantity minus the summed WIP quantity,
\* or 0 when that difference is negative, hence never negative; the DTC
\* inventory is the summed DTC quantity.
C14_ReserveClamped ==
    FlexportReturned =>
        \A sku \in MasterSkus :
            LET diff == LevelsSum(sku, "rs") - LevelsSum(sku, "wip")
            IN  /\ ReturnedInventory("Reserve", sku) = (IF diff > 0 THEN diff ELSE 0)
                /\ ReturnedInventory("Reserve", sku) >= 0
                /\ ReturnedInventory("DTC", sku) = LevelsSum(sku, "dtc")

\* C14's scenario: RS 10 and WIP 15 for one SKU give Reserve inventory 0.
C14_Witness ==
    /\ FlexportReturned
    /\ LevelsSum("3001", "rs") = 10 /\ LevelsSum("3001", "wip") = 15
    /\ ReturnedInventory("Reserve", "3001") = 0
    /\ ReturnedInventory("DTC", "3001") = 4

\* The channel name with its spaces replaced by underscores, spelled out for
\* the channel names that hold a space.
SpacesReplaced(ch) ==
    IF ch = "TikTok Shop" THEN "TikTok_Shop"
    ELSE IF ch = "TikTok Shopify" THEN "TikTok_Shopify"
    ELSE ch

\* C15: in a run that reaches validation every record's id is built from the
\* run's system date (not the record's report date), the record's channel
\* with spaces replaced by underscores, and the record's SKU; and no two
\* records of the output share an id.
C15_IdFromSystemDate ==
    Validated =>
        /\ \A i \in DOMAIN validated_data :
              validated_data[i].id =
                  << system_date, SpacesReplaced(validated_data[i].Channel),
                     validated_data[i].SKU >>
        /\ \A i, j \in DOMAIN validated_data :
              validated_data[i].id = validated_data[j].id => i = j

\* A validated output with a record of a channel whose name holds a space,
\* dated by its file the day before the run.
C15_Witness ==
    /\ Validated
    /\ \E i \in DOMAIN validated_data :
          /\ validated_data[i].Channel = "TikTok Shopify"
          /\ validated_data[i].Date = system_date - 1
          /\ validated_data[i].id[1] = system_date
          /\ validated_data[i].Units > 0

\* The file find_latest_report resolves for the source of a sales channel.
SourceFileOf(ch) ==
    find_latest_report(directory,
                       IF ch \in Range(ShopifyBuckets) THEN prefix_of("Mixed")
                       ELSE prefix_of(ch),
                       system_date)

\* All records of one channel carry one report date.
OneDatePerChannel ==
    \A i, j \in DOMAIN validated_data :
        validated_data[i].Channel = validated_data[j].Channel =>
            validated_data[i].Date = validated_data[j].Date

ExpectedChannels ==
    IF report_type = "sales" THEN Range(SALES_CHANNEL_ORDER) ELSE Range(CHANNEL_ORDER)

\* The status lines load has logged for one channel.
StatusLinesOf(ch) == { i \in DOMAIN status_lines : status_lines[i].channel = ch }

\* C17 as stated: when load has run, the log holds exactly one status line
\* for each expected channel of the report type, carrying the channel's
\* report date when the channel produced data in this run and "No data"
\* otherwise, and no status line for any other channel.
C17_OneStatusLinePerExpectedChannel ==
    pc = "done" =>
        /\ \A ch \in ExpectedChannels :
              /\ Cardinality(StatusLinesOf(ch)) = 1
              /\ \A i \in StatusLinesOf(ch) :
                    status_lines[i].date =
                        (IF ch \in ProducedChannels
                         THEN first_date(dataframes, ch) ELSE NoDate)
        /\ \A i \in DOMAIN status_lines : status_lines[i].channel \in ExpectedChannels

\* The names of the collaborator calls load has made, in order.
CallNames == [i \in DOMAIN calls |-> calls[i].fn]

\* Every collaborator call was handed the whole validated output.
CallsCarryOutput == \A i \in DOMAIN calls : calls[i].records = Len(validated_data)

\* C18 as stated: when load has run in test mode, persistence was called with
\* the validated records and notification was not called; when it has run
\* outside test mode, persistence was called first and notification after it.
C18_PersistThenNotify ==
    pc = "done" =>
        /\ CallNames = (IF test_mode THEN << "save_outputs" >>
                        ELSE << "save_outputs", "post_to_webhook" >>)
        /\ CallsCarryOutput

\* C18 amended: persistence is called, with the validated records, exactly
\* when load is handed at least one record; notification is called exactly
\* when the run is outside test mode, after persistence when both are called.
C18_PersistWhenRecordsThenNotify ==
    pc = "done" =>
        /\ CallNames =
              (IF validated_data # <<>> THEN << "save_outputs" >> ELSE << >>)
              \o (IF test_mode THEN << >> ELSE << "post_to_webhook" >>)
        /\ CallsCarryOutput

\* A test-mode run that loaded records: persistence alone was called.
C18_Witness ==
    /\ pc = "done" /\ test_mode
    /\ validated_data # <<>>
    /\ CallNames = << "save_outputs" >>
    /\ calls[1].records = Len(validated_data)

\* C19 as stated: every call of load_csv returns to its caller, with the
\* table the file holds or with None, and raises nothing; a missing file and
\* a file that cannot be read give None.
C19_LoadCsvNeverRaises ==
    (pc = "returned" /\ fn_call.fn = "load_csv") =>
        /\ fn_result.raised = ""
        /\ fn_result.df = (IF fn_call.file.readable THEN fn_call.file.rows ELSE NoneDf)

\* A call of the zero-fill has returned.
ZeroFillReturned == pc = "returned" /\ fn_call.fn = "zero_fill"

\* The channels a table holds rows of.
TableChannels(pipeline, table) ==
    IF pipeline = "sales" THEN { table[i].Channel : i \in DOMAIN table }
    ELSE { table[i].channel : i \in DOMAIN table }

\* The rows a table holds for one (channel, SKU) pair.
TableRows(pipeline, table, ch, sku) ==
    IF pipeline = "sales"
    THEN { i \in DOMAIN table : table[i].Channel = ch /\ table[i].SKU = sku }
    ELSE { i \in DOMAIN table : table[i].channel = ch /\ table[i].sku = sku }

\* The table holds exactly one row per (channel, master SKU) pair of chans.
OneRowPerPair(pipeline, table, chans) ==
    /\ Len(table) = Cardinality(chans) * Cardinality(MasterSkus)
    /\ \A ch \in chans, sku \in MasterSkus :
          Cardinality(TableRows(pipeline, table, ch, sku)) = 1

C21_RunReachesTerminalState ==
    /\ pc \in { "extract", "load", "done", "failed" }
    /\ calls # <<>> => pc = "done"
    /\ (pc \in { "load", "done" } /\ validated_data # <<>>) =>
          /\ validated_data # NoneDf
          /\ exc = ""

\* The line items of the orders of the call's orders file that are not
\* cancelled.
RECURSIVE ItemsOfLiveOrders(_)
ItemsOfLiveOrders(orders) ==
    IF orders = <<>> THEN <<>>
    ELSE (IF Head(orders).status = "CANCELLED" THEN <<>> ELSE Head(orders).items)
         \o ItemsOfLiveOrders(Tail(orders))

\* The quantities of those items whose dsku maps to the SKU, summed.
LiveQty(sku) ==
    LET items == ItemsOfLiveOrders(fn_call.files["orders"].rows)
        mine == { i \in DOMAIN items :
                    /\ items[i].dsku \in DOMAIN DSKU_TO_SKU_MAP
                    /\ DSKU_TO_SKU_MAP[items[i].dsku] = sku }
    IN  SeqSum([i \in 1..Len(items) |-> IF i \in mine THEN items[i].qty ELSE 0])

\* The units sold the returned table gives for one (channel, SKU).
ReturnedUnitsSold(ch, sku) ==
    LET mine == SelectSeq(fn_result.df, LAMBDA r : r.channel = ch /\ r.sku = sku)
    IN  mine[1].units_sold

\* C22: in the table the freight/3PL parser returns, the DTC units sold of
\* every master SKU are the summed qty of the line items of the orders that
\* are not cancelled whose dsku maps to the SKU; items of cancelled orders
\* and items with an unmapped dsku add nothing.
C22_UnitsSoldFromLiveMappedItems ==
    FlexportReturned =>
        \A sku \in MasterSkus : ReturnedUnitsSold("DTC", sku) = LiveQty(sku)

\* A cancelled order and an order with an unmapped item first and a mapped
\* item after it: the mapped item alone is counted.
C22_Witness ==
    /\ FlexportReturned
    /\ \E i, j \in DOMAIN fn_call.files["orders"].rows :
          LET o == fn_call.files["orders"].rows
          IN  /\ o[i].status = "CANCELLED" /\ o[i].items # <<>>
              /\ o[j].status # "CANCELLED"
              /\ Len(o[j].items) = 2
              /\ o[j].items[1].dsku \notin DOMAIN DSKU_TO_SKU_MAP
    /\ ReturnedUnitsSold("DTC", "3001") = 2

\* The inventory source that produces a channel.
SourceOfChannel(ch) ==
    CHOOSE k \in DOMAIN InventoryRegistry :
        InventoryRegistry[k].channel_name = (IF ch \in { "DTC", "Reserve" } THEN "Flexport" ELSE ch)

\* The prefixes of a source's files under a key of the given keys.
PrefixesUnder(k, keys) ==
    { InventoryRegistry[k].required_files[j].prefix :
        j \in { i \in DOMAIN InventoryRegistry[k].required_files :
                    InventoryRegistry[k].required_files[i].key \in keys } }

\* The file whose date a source's rows are to carry: the levels file, else
\* the inventory file, else the primary file.
DatingPrefix(k) ==
    IF PrefixesUnder(k, { "levels" }) # {} THEN CHOOSE p \in PrefixesUnder(k, { "levels" }) : TRUE
    ELSE IF PrefixesUnder(k, { "inventory" }) # {}
    THEN CHOOSE p \in PrefixesUnder(k, { "inventory" }) : TRUE
    ELSE CHOOSE p \in PrefixesUnder(k, { "primary" }) : TRUE

\* The dates of the files of the directory with a prefix.
DatesOfPrefix(p) == { f.date : f \in { g \in directory : g.prefix = p } }

\* C23: every row of the table an inventory run has extracted carries the
\* date of its source's levels file, else inventory file, else primary file,
\* and so does the channel's entry of the status summary when it holds a
\* date; the date of an orders, sales or inbound file is not used.
C23_PrimaryDateWins ==
    report_type = "inventory" =>
        /\ \A i \in DOMAIN dataframes :
              DatesOfPrefix(DatingPrefix(SourceOfChannel(dataframes[i].channel)))
                  = { dataframes[i].Date }
        /\ \A ch \in DOMAIN status_summary :
              status_summary[ch] # NoDate =>
                  DatesOfPrefix(DatingPrefix(SourceOfChannel(ch))) = { status_summary[ch] }

\* Rows of the WFS channel dated by the inventory file of the day before
\* while the sales file of the same source is dated today.
C23_Witness ==
    /\ report_type = "inventory"
    /\ \E i \in DOMAIN dataframes :
          /\ dataframes[i].channel = "WFS"
          /\ dataframes[i].Date = system_date - 1
    /\ DatesOfPrefix("Walmart_sales_") = { system_date }
    /\ DatesOfPrefix("Walmart_inventory_") = { system_date - 1 }
    /\ status_summary["WFS"] = system_date - 1

\* C24: when find_latest_report scans, it returns the latest of the regular
\* files directly in the directory whose whole name is prefix + date +
\* ".csv" with a calendar date, and not-found when there is none: a
\* directory, a file with an invalid date segment, a file with a longer name
\* and a file inside a subdirectory are never returned.
C24_ScanKeepsValidFilesOnly ==
    (FindReturned /\ fn_result.scanned) =>
        IF MatchingDates = {}
        THEN ~fn_result.found
        ELSE /\ fn_result.found
             /\ fn_result.date \in MatchingDates
             /\ \A d \in MatchingDates : d <= fn_result.date

\* A scan over a directory that holds all four irregular entries and one
\* report file of the day before: that file is returned.
C24_Witness ==
    /\ FindReturned /\ fn_result.scanned
    /\ IrregularEntries \subseteq fn_call.dir
    /\ MatchingDates = { system_date - 1 }
    /\ fn_result.found /\ fn_result.date = system_date - 1

\* C25 as stated: the TikTok parser, applied to a file it can read, loads the
\* table with the skip-row count and the delimiter its header scan found and
\* returns what bundle expansion gives for the rows of that table.
C25_TikTokLoadedAndExpanded ==
    (ParserReturned("TikTok Shop") /\ fn_call.file.readable) =>
        /\ fn_result.raised = ""
        /\ fn_result =
              mapped_sales_report(
                  [raised |-> "", df |-> fn_call.file.rows], TIKTOK_ID_MAP,
                  fn_call.file.cols_ok)

\* The place of the retailer-fulfillment source in the inventory registry.
WfsIdx ==
    CHOOSE k \in DOMAIN InventoryRegistry : InventoryRegistry[k].channel_name = "WFS"

\* C26 as stated: when an inventory run has parsed well-formed Walmart sales
\* and inventory files, the extracted table holds exactly one WFS row per
\* master SKU, with the units sold summed over the sales file and the
\* inventory and inbound summed over the inventory file, zero where a file
\* does not list the SKU, also when a file lists a SKU on several rows.
C26_WfsOneRowPerSku ==
    ( /\ report_type = "inventory"
      /\ idx > WfsIdx
      /\ content["Walmart_sales_"].readable /\ content["Walmart_sales_"].cols_ok
      /\ content["Walmart_inventory_"].readable /\ content["Walmart_inventory_"].cols_ok ) =>
        \A sku \in MasterSkus :
            /\ Len(ExtractedRows("WFS", sku)) = 1
            /\ ExtractedRows("WFS", sku)[1].units_sold =
                  SumField(SelectSeq(content["Walmart_sales_"].rows,
                                     LAMBDA r : r.key = sku), "qty")
            /\ ExtractedRows("WFS", sku)[1].inventory =
                  SumField(SelectSeq(content["Walmart_inventory_"].rows,
                                     LAMBDA r : r.sku = sku), "available")
            /\ ExtractedRows("WFS", sku)[1].inbound =
                  SumField(SelectSeq(content["Walmart_inventory_"].rows,
                                     LAMBDA r : r.sku = sku), "inbound")


\* A call of the marketplace-fulfillment parser has returned a table.
FbaReturned ==
    /\ pc = "returned" /\ fn_call.fn = "parse_fba_report"
    /\ fn_result.raised = "" /\ IsData(fn_result.df)

\* The allow-listed raw rows of the report that normalize to one SKU.
FbaRowsOf(sku) ==
    SelectSeq(fn_call.files["primary"].rows,
              LAMBDA r : r.sku \in AMAZON_SKUs /\ strip_trailing_s(r.sku) = sku)

\* C27: the table the marketplace-fulfillment parser returns holds exactly
\* one row per master SKU and no other row, every row of channel FBA; the
\* row of a master SKU carries the sums, over the raw rows whose Merchant SKU
\* is allow-listed and normalizes to it, of the units sold, of Available + FC
\* transfer and of the inbound units, hence zeros when no such row exists.
C27_FbaOneSummedRowPerSku ==
    FbaReturned =>
        /\ \A i \in DOMAIN fn_result.df :
              fn_result.df[i].sku \in MasterSkus /\ fn_result.df[i].channel = "FBA"
        /\ \A sku \in MasterSkus :
              LET mine == SelectSeq(fn_result.df, LAMBDA r : r.sku = sku)
                  raw == FbaRowsOf(sku)
              IN  /\ Len(mine) = 1
                  /\ mine[1].units_sold = SumField(raw, "units_sold")
                  /\ mine[1].inventory = SumField(raw, "available") + SumField(raw, "fc_transfer")
                  /\ mine[1].inbound = SumField(raw, "inbound")

\* C27's scenario: two raw rows of "5001s" and a row of the master SKU "5001"
\* that is not allow-listed give one FBA row of 5001 holding the sums of the
\* two rows only.
C27_Witness ==
    /\ FbaReturned
    /\ Len(FbaRowsOf("5001")) = 2
    /\ FbaRowsOf("5001")[1] # FbaRowsOf("5001")[2]
    /\ \E r \in Range(fn_result.df) :
          r.sku = "5001" /\ r.units_sold = 3 /\ r.inventory = 6 /\ r.inbound = 1
    /\ \E r \in Range(fn_result.df) :
          r.sku = "3001" /\ r.units_sold = 0 /\ r.inventory = 0 /\ r.inbound = 0


\* Extract has run over every source of the registry and collected no table.
ExtractYieldedNoData ==
    /\ pc = "extract"
    /\ idx = 1 + (IF report_type = "sales" THEN Len(SalesRegistry)
                  ELSE Len(InventoryRegistry))
    /\ dataframes = <<>>

\* C29 as stated: when extract has yielded no data from any channel, the
\* next step of the run is load with an empty record list, transform being
\* skipped: status lines are logged, save_outputs is not called, and
\* post_to_webhook is called once with no record and the status summary
\* outside test mode, and not called in test mode.
C29_EmptyExtractLoadsEmptyList ==
    [][ExtractYieldedNoData =>
          /\ pc' = "done"
          /\ validated_data' = <<>>
          /\ status_lines' # <<>>
          /\ calls' = (IF test_mode THEN <<>>
                       ELSE << [fn |-> "post_to_webhook", records |-> 0,
                                metadata |-> status_summary] >>)]_vars


\* The date the status summary holds for a channel, None when it holds no
\* entry for it.
StatusDate(ch) == IF ch \in DOMAIN status_summary THEN status_summary[ch] ELSE NoDate

\* The records of the output of one channel.
RecordsOfChannel(ch) == { i \in DOMAIN validated_data : validated_data[i].Channel = ch }

\* The channels of the status summary, of the configuration and of the output.
KnownChannels ==
    DOMAIN status_summary \cup ExpectedChannels
        \cup { validated_data[i].Channel : i \in DOMAIN validated_data }

RowSku(pipeline, row) == IF pipeline = "sales" THEN row.SKU ELSE row.sku

\* The channel of a row of a table of either pipeline.
RowChannel(pipeline, row) == IF pipeline = "sales" THEN row.Channel ELSE row.channel

====
